---- MODULE Spec2Model ----
(***************************************************************************)
(* Flatten / normalize / map / upsert pipeline of the Bridge dashboard     *)
(* (src/DBCreation/InsertTransferData.py, InsertCustomerData.py) and the   *)
(* PostgreSQL tables it writes (TransferTableCreation.py,                  *)
(* CustomerTableCreation.py).                                              *)
(*                                                                         *)
(* Representation.  A Python str is a sequence of atoms; the atom "_" is   *)
(* the separator character and every other atom stands for a non-empty     *)
(* run of characters without "_" (the atom "Z" is the single letter Z, no  *)
(* other atom ends in Z).  "payin_crypto" is <<"payin", "_", "crypto">>    *)
(* and "" is <<>>, so concatenation is \o and splitting on the separator   *)
(* is splitting at the "_" atoms.  A JSON value is a tagged record         *)
(* [t, v]: "str" (v the atoms), "null" (None), "list" (v the elements),    *)
(* "dict" (v the items in insertion order, as <<key, value>> pairs with    *)
(* distinct keys) and "datetime" (v = <<date, time, utcoffset>>).  A flat  *)
(* record, the dict a flattener returns, is a function from keys to        *)
(* values: Python compares dicts without regard to insertion order.        *)
(***************************************************************************)
EXTENDS Integers, Sequences, FiniteSets, TLC

Str(s) == [t |-> "str", v |-> s]
NoneVal == [t |-> "null", v |-> <<>>]
List(l) == [t |-> "list", v |-> l]
Dict(items) == [t |-> "dict", v |-> items]
DateTime(d, tm, off) == [t |-> "datetime", v |-> <<d, tm, off>>]

\* the set of elements of a sequence
Range(q) == { q[i] : i \in DOMAIN q }

\* sep: the default value "_" of the flatteners' parameter
sep == <<"_">>

\* out[k] = v on a Python dict
Put(out, k, v) == [x \in DOMAIN out \cup {k} |-> IF x = k THEN v ELSE out[x]]

\* out.update(f)
Update(out, f) ==
    [x \in DOMAIN out \cup DOMAIN f |-> IF x \in DOMAIN f THEN f[x] ELSE out[x]]

\* ComposeKey with the separator put before the child under an empty parent too
ComposeKeyAlwaysSep(parent, s, k) == parent \o s \o k

\* ComposeKey without the separator between parent and child
ComposeKeyNoSep(parent, s, k) == IF parent # <<>> THEN parent \o k ELSE k

\* nk = f"{parent}{sep}{k}" if parent else k   ("" is falsy)
ComposeKey(parent, s, k) == IF parent # <<>> THEN parent \o s \o k ELSE k

(***************************************************************************)
(* _flatten of InsertTransferData.py: `out` after the first n iterations   *)
(* of `for k, v in d.items()`.                                             *)
(***************************************************************************)
RECURSIVE FlattenItems(_, _, _, _)
FlattenItems(d, parent, s, n) ==
    IF n = 0 THEN <<>>
    ELSE LET out == FlattenItems(d, parent, s, n - 1)
             k == d[n][1]
             v == d[n][2]
             nk == ComposeKey(parent, s, k)
         IN  IF v.t = "dict"
             THEN Update(out, FlattenItems(v.v, nk, s, Len(v.v)))
             ELSE Put(out, nk, v)

_flatten(d, parent, s) == FlattenItems(d, parent, s, Len(d))

(***************************************************************************)
(* _flatten_json of InsertCustomerData.py (the same loop, its own copy).   *)
(***************************************************************************)
RECURSIVE FlattenJsonItems(_, _, _, _)
FlattenJsonItems(data, parent, s, n) ==
    IF n = 0 THEN <<>>
    ELSE LET out == FlattenJsonItems(data, parent, s, n - 1)
             k == data[n][1]
             v == data[n][2]
             new_key == ComposeKey(parent, s, k)
         IN  IF v.t = "dict"
             THEN Update(out, FlattenJsonItems(v.v, new_key, s, Len(v.v)))
             ELSE Put(out, new_key, v)

_flatten_json(data, parent, s) == FlattenJsonItems(data, parent, s, Len(data))

(***************************************************************************)
(* The CSV-export flatteners.  str(v) and repr(v) of the values that occur *)
(* inside a list: a str prints as itself and is quoted by repr, None       *)
(* prints as None, a dict and a list print their items' reprs.             *)
(***************************************************************************)
\* glue.join(parts) for a sequence of strings
RECURSIVE Join(_, _)
Join(glue, parts) ==
    IF parts = <<>> THEN <<>>
    ELSE IF Len(parts) = 1 THEN parts[1]
    ELSE parts[1] \o glue \o Join(glue, Tail(parts))

RECURSIVE repr(_)
repr(v) ==
    IF v.t = "str" THEN <<"'">> \o v.v \o <<"'">>
    ELSE IF v.t = "null" THEN <<"None">>
    ELSE IF v.t = "list"
    THEN <<"[">> \o Join(<<",", " ">>, [i \in DOMAIN v.v |-> repr(v.v[i])]) \o <<"]">>
    ELSE <<"{">> \o Join(<<",", " ">>,
                         [i \in DOMAIN v.v |->
                             <<"'">> \o v.v[i][1] \o <<"'", ":", " ">> \o repr(v.v[i][2])])
             \o <<"}">>

str(v) == IF v.t = "str" THEN v.v ELSE repr(v)

\* the default separator of flatten_dict
dot == <<".">>

(***************************************************************************)
(* flatten_dict of utils/logging_functions.py: `dict(items)` after the     *)
(* first n iterations of `for k, v in d.items()`.  A list becomes the      *)
(* string of its elements' str joined by commas.                           *)
(***************************************************************************)
RECURSIVE FlattenDictItems(_, _, _, _)
FlattenDictItems(d, parent_key, s, n) ==
    IF n = 0 THEN <<>>
    ELSE LET items == FlattenDictItems(d, parent_key, s, n - 1)
             k == d[n][1]
             v == d[n][2]
             new_key == ComposeKey(parent_key, s, k)
         IN  IF v.t = "dict"
             THEN Update(items, FlattenDictItems(v.v, new_key, s, Len(v.v)))
             ELSE IF v.t = "list"
             THEN Put(items, new_key,
                      Str(Join(<<",">>, [i \in DOMAIN v.v |-> str(v.v[i])])))
             ELSE Put(items, new_key, v)

flatten_dict(d, parent_key, s) == FlattenDictItems(d, parent_key, s, Len(d))

(***************************************************************************)
(* flatten_json of LiqAddHistoric.py, on a dict, a list or any other       *)
(* value; str(i) of a list index is the atom of its digits.                *)
(***************************************************************************)
IndexStr(i) == <<ToString(i)>>

RECURSIVE flatten_json(_, _, _)
RECURSIVE FlattenJsonDict(_, _, _, _)
RECURSIVE FlattenJsonList(_, _, _, _)
\* the branch `isinstance(data, dict)`, after n iterations
FlattenJsonDict(d, parent_key, s, n) ==
    IF n = 0 THEN <<>>
    ELSE LET items == FlattenJsonDict(d, parent_key, s, n - 1)
             k == d[n][1]
             v == d[n][2]
             new_key == ComposeKey(parent_key, s, k)
         IN  IF v.t \in {"dict", "list"}
             THEN Update(items, flatten_json(v, new_key, s))
             ELSE Put(items, new_key, v)

\* the branch `isinstance(data, list)`, after n iterations (enumerate from 0)
FlattenJsonList(l, parent_key, s, n) ==
    IF n = 0 THEN <<>>
    ELSE LET items == FlattenJsonList(l, parent_key, s, n - 1)
             item == l[n]
             new_key == ComposeKey(parent_key, s, IndexStr(n - 1))
         IN  IF item.t \in {"dict", "list"}
             THEN Update(items, flatten_json(item, new_key, s))
             ELSE Put(items, new_key, item)

flatten_json(data, parent_key, s) ==
    IF data.t = "dict" THEN FlattenJsonDict(data.v, parent_key, s, Len(data.v))
    ELSE IF data.t = "list" THEN FlattenJsonList(data.v, parent_key, s, Len(data.v))
    ELSE Put(<<>>, parent_key, data)

\* a flat record as a dict given to a flattener again: its items in some
\* order (its keys are distinct and none of its values is iterated over in
\* an order-dependent way)
RECURSIVE ItemsOf(_)
ItemsOf(flat) ==
    IF DOMAIN flat = {} THEN <<>>
    ELSE LET k == CHOOSE x \in DOMAIN flat : TRUE
         IN  <<<<k, flat[k]>>>> \o ItemsOf([x \in DOMAIN flat \ {k} |-> flat[x]])

(***************************************************************************)
(* CSV export.  sorted() orders the field names as Python orders strings,  *)
(* by code point: AtomOrder lists the atoms of the field names in that     *)
(* order (no atom is a prefix of another one, so comparing atom by atom is *)
(* comparing character by character).  The written file is kept as the     *)
(* header's field names and, per data row, the cell text of each field.    *)
(***************************************************************************)
AtomOrder == <<".", "0", "1", "2", "_", "address", "capabilities", "crypto",
              "developer", "fee", "id", "note", "on_behalf_of", "payin", "percent", "rails",
              "state">>

AtomRank(a) == CHOOSE i \in DOMAIN AtomOrder : AtomOrder[i] = a

\* a < b on strings
RECURSIVE StrLess(_, _)
StrLess(a, b) ==
    IF b = <<>> THEN FALSE
    ELSE IF a = <<>> THEN TRUE
    ELSE IF a[1] = b[1] THEN StrLess(Tail(a), Tail(b))
    ELSE AtomRank(a[1]) < AtomRank(b[1])

\* MinField taking the greatest name instead
MaxField(S) == CHOOSE x \in S : \A y \in S : x = y \/ StrLess(y, x)

\* the least of a non-empty set of field names
MinField(S) == CHOOSE x \in S : \A y \in S : x = y \/ StrLess(x, y)

\* sorted(S)
RECURSIVE sorted(_)
sorted(S) == IF S = {} THEN <<>> ELSE <<MinField(S)>> \o sorted(S \ {MinField(S)})

\* what the csv writer puts into a cell: nothing for None, else the text
CellText(v) == IF v.t = "null" THEN <<>> ELSE str(v)

\* a truthy/falsy JSON value (`if not data`)
Truthy(v) == ~(v.t = "null" \/ (v.t \in {"str", "list", "dict"} /\ v.v = <<>>))

HasKey(d, k) == \E i \in DOMAIN d : d[i][1] = k
Get(d, k) == d[CHOOSE i \in DOMAIN d : d[i][1] = k][2]

\* save_to_csv lines 70-89: the records of the response
RecordsOf(data) ==
    IF data.t = "dict"
    THEN IF HasKey(data.v, <<"data">>) /\ Get(data.v, <<"data">>).t = "list"
         THEN Get(data.v, <<"data">>).v
         ELSE IF HasKey(data.v, <<"transfers">>) /\ Get(data.v, <<"transfers">>).t = "list"
         THEN Get(data.v, <<"transfers">>).v
         ELSE LET lists == { i \in DOMAIN data.v : data.v[i][2].t = "list" }
                  found == IF lists = {} THEN <<>>
                           ELSE data.v[CHOOSE i \in lists : \A j \in lists : i <= j][2].v
              IN  IF found = <<>> THEN <<data>> ELSE found
    ELSE IF data.t = "list" THEN data.v
    ELSE <<data>>

NoFile == [status |-> "nothing", header |-> <<>>, rows |-> <<>>]

\* the subsequence of the mapping records
DictRecords(records) == SelectSeq(records, LAMBDA r : r.t = "dict")

\* save_to_csv(data, filename) with a file system that accepts the write
\* (io_ok) or not
save_to_csv(data, io_ok) ==
    IF ~Truthy(data) THEN NoFile
    ELSE LET records == RecordsOf(data)
         IN  IF records = <<>> THEN NoFile
             ELSE IF ~io_ok THEN [NoFile EXCEPT !.status = "io_error"]
             ELSE LET dicts == DictRecords(records)
                      all_fields == UNION { DOMAIN flatten_json(dicts[i], <<>>, sep) :
                                            i \in DOMAIN dicts }
                      fieldnames == sorted(all_fields)
                  IN  [status |-> "written",
                       header |-> fieldnames,
                       rows |-> [i \in DOMAIN dicts |->
                                   LET flattened == flatten_json(dicts[i], <<>>, sep)
                                   IN  [f \in Range(fieldnames) |->
                                           IF f \in DOMAIN flattened
                                           THEN CellText(flattened[f])
                                           ELSE <<>>]]]

\* what `for item in v` goes through, for the values that can be iterated
\* without an error before the first item is used as a dict
Iterable(v) == v.t = "list" \/ (v.t \in {"str", "dict"} /\ v.v = <<>>)

\* json_response_to_flat_csv_bytes(json_string), json_string the JSON text
\* of data: a KeyError or TypeError without data['data'], an AttributeError
\* or TypeError when data['data'] cannot be iterated or an item of it has no
\* .items()
json_response_to_flat_csv_bytes(data) ==
    IF ~(data.t = "dict" /\ HasKey(data.v, <<"data">>)
            /\ Iterable(Get(data.v, <<"data">>))
            /\ \A i \in DOMAIN Get(data.v, <<"data">>).v :
                   Get(data.v, <<"data">>).v[i].t = "dict")
    THEN [NoFile EXCEPT !.status = "raised"]
    ELSE LET items == Get(data.v, <<"data">>).v
             rows == [i \in DOMAIN items |-> flatten_dict(items[i].v, <<>>, dot)]
             headers == sorted(UNION { DOMAIN rows[i] : i \in DOMAIN rows })
         IN  [status |-> "written",
              header |-> headers,
              rows |-> [i \in DOMAIN rows |->
                          [f \in Range(headers) |->
                              IF f \in DOMAIN rows[i] THEN CellText(rows[i][f]) ELSE <<>>]]]

(***************************************************************************)
(* Column maps, as <<JSON key, column>> pairs in the dicts' iteration      *)
(* order.                                                                  *)
(***************************************************************************)
KEY_TO_COL == <<
    << <<"id">>, "id">>,
    << <<"client", "_", "reference", "_", "id">>, "client_reference_id">>,
    << <<"state">>, "state">>,
    << <<"on", "_", "behalf", "_", "of">>, "on_behalf_of">>,
    << <<"amount">>, "amount">>,
    << <<"developer", "_", "fee">>, "developer_fee">>,
    << <<"currency">>, "currency">>,
    << <<"created", "_", "at">>, "created_at">>,
    << <<"updated", "_", "at">>, "updated_at">>,
    << <<"source", "_", "payment", "_", "rail">>, "source_payment_rail">>,
    << <<"source", "_", "currency">>, "source_currency">>,
    << <<"source", "_", "from", "_", "address">>, "source_from_address">>,
    << <<"source", "_", "external", "_", "account", "_", "id">>, "source_external_account_id">>,
    << <<"source", "_", "bridge", "_", "wallet", "_", "id">>, "source_bridge_wallet_id">>,
    << <<"source", "_", "bank", "_", "beneficiary", "_", "name">>, "source_bank_beneficiary_name">>,
    << <<"source", "_", "bank", "_", "routing", "_", "number">>, "source_bank_routing_number">>,
    << <<"source", "_", "bank", "_", "account", "_", "number">>, "source_bank_account_number">>,
    << <<"source", "_", "bank", "_", "name">>, "source_bank_name">>,
    << <<"source", "_", "imad">>, "source_imad">>,
    << <<"source", "_", "omad">>, "source_omad">>,
    << <<"source", "_", "payment", "_", "scheme">>, "source_payment_scheme">>,
    << <<"destination", "_", "payment", "_", "rail">>, "destination_payment_rail">>,
    << <<"destination", "_", "currency">>, "destination_currency">>,
    << <<"destination", "_", "to", "_", "address">>, "destination_to_address">>,
    << <<"destination", "_", "external", "_", "account", "_", "id">>, "destination_external_account_id">>,
    << <<"destination", "_", "bridge", "_", "wallet", "_", "id">>, "destination_bridge_wallet_id">>,
    << <<"destination", "_", "wire", "_", "message">>, "destination_wire_message">>,
    << <<"destination", "_", "sepa", "_", "reference">>, "destination_sepa_reference">>,
    << <<"destination", "_", "swift", "_", "reference">>, "destination_swift_reference">>,
    << <<"destination", "_", "spei", "_", "reference">>, "destination_spei_reference">>,
    << <<"destination", "_", "swift", "_", "charges">>, "destination_swift_charges">>,
    << <<"destination", "_", "ach", "_", "reference">>, "destination_ach_reference">>,
    << <<"destination", "_", "blockchain", "_", "memo">>, "destination_blockchain_memo">>,
    << <<"destination", "_", "deposit", "_", "id">>, "destination_deposit_id">>,
    << <<"destination", "_", "imad">>, "destination_imad">>,
    << <<"source", "_", "deposit", "_", "instructions", "_", "payment", "_", "rail">>, "sdi_payment_rail">>,
    << <<"source", "_", "deposit", "_", "instructions", "_", "payment", "_", "rails">>, "sdi_payment_rails">>,
    << <<"source", "_", "deposit", "_", "instructions", "_", "amount">>, "sdi_amount">>,
    << <<"source", "_", "deposit", "_", "instructions", "_", "currency">>, "sdi_currency">>,
    << <<"source", "_", "deposit", "_", "instructions", "_", "deposit", "_", "message">>, "sdi_deposit_message">>,
    << <<"source", "_", "deposit", "_", "instructions", "_", "from", "_", "address">>, "sdi_from_address">>,
    << <<"source", "_", "deposit", "_", "instructions", "_", "to", "_", "address">>, "sdi_to_address">>,
    << <<"source", "_", "deposit", "_", "instructions", "_", "bank", "_", "beneficiary", "_", "name">>, "sdi_bank_beneficiary_name">>,
    << <<"source", "_", "deposit", "_", "instructions", "_", "bank", "_", "routing", "_", "number">>, "sdi_bank_routing_number">>,
    << <<"source", "_", "deposit", "_", "instructions", "_", "bank", "_", "account", "_", "number">>, "sdi_bank_account_number">>,
    << <<"source", "_", "deposit", "_", "instructions", "_", "bank", "_", "name">>, "sdi_bank_name">>,
    << <<"source", "_", "deposit", "_", "instructions", "_", "iban">>, "sdi_iban">>,
    << <<"source", "_", "deposit", "_", "instructions", "_", "bic">>, "sdi_bic">>,
    << <<"source", "_", "deposit", "_", "instructions", "_", "account", "_", "holder", "_", "name">>, "sdi_account_holder_name">>,
    << <<"source", "_", "deposit", "_", "instructions", "_", "bank", "_", "address">>, "sdi_bank_address">>,
    << <<"receipt", "_", "initial", "_", "amount">>, "receipt_initial_amount">>,
    << <<"receipt", "_", "developer", "_", "fee">>, "receipt_developer_fee">>,
    << <<"receipt", "_", "exchange", "_", "fee">>, "receipt_exchange_fee">>,
    << <<"receipt", "_", "subtotal", "_", "amount">>, "receipt_subtotal_amount">>,
    << <<"receipt", "_", "gas", "_", "fee">>, "receipt_gas_fee">>,
    << <<"receipt", "_", "final", "_", "amount">>, "receipt_final_amount">>,
    << <<"receipt", "_", "source", "_", "tx", "_", "hash">>, "receipt_source_tx_hash">>,
    << <<"receipt", "_", "destination", "_", "tx", "_", "hash">>, "receipt_destination_tx_hash">>,
    << <<"receipt", "_", "url">>, "receipt_url">>,
    << <<"features", "_", "flexible", "_", "amount">>, "features_flexible_amount">>,
    << <<"features", "_", "static", "_", "template">>, "features_static_template">>,
    << <<"features", "_", "allow", "_", "any", "_", "from", "_", "address">>, "features_allow_any_from_address">>
    >>

\* column_mapping of insert_user
insert_column_mapping == <<
    << <<"id">>, "id">>,
    << <<"first", "_", "name">>, "first_name">>,
    << <<"last", "_", "name">>, "last_name">>,
    << <<"email">>, "email">>,
    << <<"status">>, "status">>,
    << <<"capabilities", "_", "payin", "_", "crypto">>, "payin_crypto">>,
    << <<"capabilities", "_", "payout", "_", "crypto">>, "payout_crypto">>,
    << <<"capabilities", "_", "payin", "_", "fiat">>, "payin_fiat">>,
    << <<"capabilities", "_", "payout", "_", "fiat">>, "payout_fiat">>,
    << <<"created", "_", "at">>, "created_at">>,
    << <<"updated", "_", "at">>, "updated_at">>
    >>

\* column_mapping of update_user
update_column_mapping == <<
    << <<"first", "_", "name">>, "first_name">>,
    << <<"last", "_", "name">>, "last_name">>,
    << <<"email">>, "email">>,
    << <<"status">>, "status">>,
    << <<"capabilities", "_", "payin", "_", "crypto">>, "payin_crypto">>,
    << <<"capabilities", "_", "payout", "_", "crypto">>, "payout_crypto">>,
    << <<"capabilities", "_", "payin", "_", "fiat">>, "payin_fiat">>,
    << <<"capabilities", "_", "payout", "_", "fiat">>, "payout_fiat">>,
    << <<"updated", "_", "at">>, "updated_at">>
    >>

\* MapItems with a loop that starts at the table's second entry
RECURSIVE MapItemsSkipFirst(_, _, _)
MapItemsSkipFirst(table, rec, n) ==
    IF n <= 1 THEN [cols |-> <<>>, vals |-> <<>>]
    ELSE LET acc == MapItemsSkipFirst(table, rec, n - 1)
             k == table[n][1]
             col == table[n][2]
         IN  IF k \in DOMAIN rec
             THEN [cols |-> Append(acc.cols, col), vals |-> Append(acc.vals, rec[k])]
             ELSE acc

(***************************************************************************)
(* The mapping loop `for k, col in table.items(): if k in rec: ...`: the   *)
(* parallel lists after the first n entries of the table.                  *)
(***************************************************************************)
RECURSIVE MapItems(_, _, _)
MapItems(table, rec, n) ==
    IF n = 0 THEN [cols |-> <<>>, vals |-> <<>>]
    ELSE LET acc == MapItems(table, rec, n - 1)
             k == table[n][1]
             col == table[n][2]
         IN  IF k \in DOMAIN rec
             THEN [cols |-> Append(acc.cols, col), vals |-> Append(acc.vals, rec[k])]
             ELSE acc

\* upsert_bridge_transfer: cols, vals built from norm
TransferColumns(norm) == MapItems(KEY_TO_COL, norm, Len(KEY_TO_COL))

\* insert_user: columns, values built from flat_data
InsertColumns(flat_data) ==
    MapItems(insert_column_mapping, flat_data, Len(insert_column_mapping))

\* update_user: set_clauses, values built from flat_data
UpdateColumns(flat_data) ==
    MapItems(update_column_mapping, flat_data, Len(update_column_mapping))

(***************************************************************************)
(* _normalize.  datetime.fromisoformat accepts YYYY-MM-DD, optionally      *)
(* followed by one separator character (any character), a time and a UTC   *)
(* offset; anything else is a ValueError (ParseError here).  In            *)
(* "2024-01-01+00:00" the "+" is taken as the separator and "00:00" as the *)
(* time of day, which gives a naive datetime.                              *)
(***************************************************************************)
Dates == {"2024-01-01", "2024-01-02"}
Times == {"00:00:00"}
ParseError == [t |-> "error", v |-> <<>>]

fromisoformat(s) ==
    IF Len(s) = 1 /\ s[1] \in Dates THEN DateTime(s[1], "00:00:00", "naive")
    ELSE IF Len(s) = 2 /\ s[1] \in Dates /\ s[2] = "+00:00"
         THEN DateTime(s[1], "00:00:00", "naive")
    ELSE IF Len(s) = 3 /\ s[1] \in Dates /\ s[2] = "T" /\ s[3] \in Times
         THEN DateTime(s[1], s[3], "naive")
    ELSE IF Len(s) = 4 /\ s[1] \in Dates /\ s[2] = "T" /\ s[3] \in Times
            /\ s[4] = "+00:00"
         THEN DateTime(s[1], s[3], "+00:00")
    ELSE ParseError

endswithZ(s) == Len(s) > 0 /\ s[Len(s)] = "Z"

\* one iteration of `for tkey in ("created_at", "updated_at")`
NormalizeTime(out, tkey) ==
    IF tkey \in DOMAIN out /\ out[tkey].t = "str"
    THEN LET s0 == out[tkey].v
             s == IF endswithZ(s0)
                  THEN SubSeq(s0, 1, Len(s0) - 1) \o <<"+00:00">>
                  ELSE s0
             parsed == fromisoformat(s)
         IN  IF parsed # ParseError THEN Put(out, tkey, parsed) ELSE out
    ELSE out

receipt_gas_fe == <<"receipt", "_", "gas", "_", "fe">>
receipt_gas_fee == <<"receipt", "_", "gas", "_", "fee">>
created_at == <<"created", "_", "at">>
updated_at == <<"updated", "_", "at">>

\* _normalize copying receipt_gas_fe over a receipt_gas_fee that is present
NormalizeOverwriting(flat) ==
    LET out1 == IF receipt_gas_fe \in DOMAIN flat
                THEN Put(flat, receipt_gas_fee, flat[receipt_gas_fe])
                ELSE flat
    IN  NormalizeTime(NormalizeTime(out1, created_at), updated_at)

_normalize(flat) ==
    LET out1 == IF receipt_gas_fe \in DOMAIN flat /\ receipt_gas_fee \notin DOMAIN flat
                THEN Put(flat, receipt_gas_fee, flat[receipt_gas_fe])
                ELSE flat
    IN  NormalizeTime(NormalizeTime(out1, created_at), updated_at)

(***************************************************************************)
(* Raw records for the flatteners: nested mappings of at most MaxNodes     *)
(* entries (counted over all levels), built entry by entry, with keys from *)
(* RawKeys and leaves from Leaves.  The keys include the empty string, a   *)
(* key that contains the separator and one that equals the composition of  *)
(* two others.                                                             *)
(***************************************************************************)
MaxNodes == 3

RawKeys == { <<"id">>, <<"state">>, <<"capabilities">>,
             <<"payin", "_", "crypto">>,
             <<"capabilities", "_", "payin", "_", "crypto">>,
             <<>> }

Leaves == { Str(<<"enabled">>),
            List(<<Str(<<"ach">>), Dict(<< << <<"id">>, Str(<<"enabled">>) >> >>)>>) }

KeysOf(d) == { d[i][1] : i \in DOMAIN d }

\* the number of entries of d, over all levels
RECURSIVE Size(_)
Size(d) ==
    IF d = <<>> THEN 0
    ELSE (IF d[Len(d)][2].t = "dict" THEN 1 + Size(d[Len(d)][2].v) ELSE 1)
         + Size(SubSeq(d, 1, Len(d) - 1))

\* the positions (index paths) of the mappings in d, d itself at <<>>
RECURSIVE DictPaths(_)
DictPaths(d) ==
    { <<>> } \cup UNION { IF d[i][2].t = "dict"
                          THEN { <<i>> \o p : p \in DictPaths(d[i][2].v) }
                          ELSE {} : i \in DOMAIN d }

\* the mapping at position path of d
RECURSIVE DictAt(_, _)
DictAt(d, path) == IF path = <<>> THEN d ELSE DictAt(d[path[1]][2].v, Tail(path))

\* d with item appended to the mapping at position path
RECURSIVE AppendAt(_, _, _)
AppendAt(d, path, item) ==
    IF path = <<>> THEN Append(d, item)
    ELSE [d EXCEPT ![path[1]] =
             <<d[path[1]][1], Dict(AppendAt(d[path[1]][2].v, Tail(path), item))>>]

\* the value of key k in the item list d (the last item wins, as in a dict)
ItemValue(d, k) ==
    d[CHOOSE i \in DOMAIN d : d[i][1] = k /\ \A j \in DOMAIN d : d[j][1] = k => j <= i][2]

\* the paths (sequences of keys) of d that end in a value that is no mapping
RECURSIVE LeafPaths(_)
LeafPaths(d) ==
    UNION { IF d[i][2].t = "dict"
            THEN { <<d[i][1]>> \o p : p \in LeafPaths(d[i][2].v) }
            ELSE { <<d[i][1]>> } : i \in DOMAIN d }

\* the value at the end of path p of d
RECURSIVE ValueAt(_, _)
ValueAt(d, p) ==
    IF Len(p) = 1 THEN ItemValue(d, p[1]) ELSE ValueAt(ItemValue(d, p[1]).v, Tail(p))

\* parent + separator + child along a path
RECURSIVE JoinPath(_)
JoinPath(p) == IF Len(p) = 1 THEN p[1] ELSE p[1] \o sep \o JoinPath(Tail(p))

\* every key of d, at every level
RECURSIVE AllKeys(_)
AllKeys(d) ==
    KeysOf(d) \cup UNION { IF d[i][2].t = "dict" THEN AllKeys(d[i][2].v) ELSE {} :
                           i \in DOMAIN d }

\* d holds an empty mapping below the top level
RECURSIVE HasEmptyDict(_)
HasEmptyDict(d) ==
    \E i \in DOMAIN d :
        d[i][2].t = "dict" /\ (d[i][2].v = <<>> \/ HasEmptyDict(d[i][2].v))

\* a nested mapping as a function, for comparison without insertion order
RECURSIVE AsMapping(_)
AsMapping(d) ==
    [k \in KeysOf(d) |->
        LET v == ItemValue(d, k)
        IN  IF v.t = "dict" THEN [t |-> "dict", v |-> AsMapping(v.v)] ELSE v]

(***************************************************************************)
(* Re-nesting (spec.md section 8): split each composed key on the          *)
(* separator and rebuild the nesting.  Where a key is both a leaf and a    *)
(* prefix of a longer key the leaf is kept.                                *)
(***************************************************************************)
\* key.split(sep): the segments between the separator atoms
RECURSIVE SplitKey(_)
SplitKey(k) ==
    IF \E i \in DOMAIN k : k[i] = "_"
    THEN LET i == CHOOSE j \in DOMAIN k : k[j] = "_" /\ \A h \in 1..(j - 1) : k[h] # "_"
         IN  <<SubSeq(k, 1, i - 1)>> \o SplitKey(SubSeq(k, i + 1, Len(k)))
    ELSE <<k>>

\* the nested mapping of a set of <<path, value>> pairs
RECURSIVE RenestPaths(_)
RenestPaths(P) ==
    [h \in { pv[1][1] : pv \in P } |->
        LET below == { pv \in P : pv[1][1] = h }
        IN  IF \E pv \in below : Len(pv[1]) = 1
            THEN (CHOOSE pv \in below : Len(pv[1]) = 1)[2]
            ELSE [t |-> "dict",
                  v |-> RenestPaths({ <<Tail(pv[1]), pv[2]>> : pv \in below })]]

Renest(flat) == RenestPaths({ <<SplitKey(k), flat[k]>> : k \in DOMAIN flat })

(***************************************************************************)
(* PostgreSQL side.  A table is the sequence of its committed rows; a row  *)
(* is a function from the columns that are not NULL to their values.  Each *)
(* connection has a transaction status (psycopg2's IDLE, INTRANS, INERROR) *)
(* and the write of its open transaction, which the other connections do   *)
(* not see before the commit (READ COMMITTED).                             *)
(***************************************************************************)
NumConns == 2           \* connections, each used by one sequential caller
MaxTransferCalls == 3   \* upsert_bridge_transfer calls made over all connections
MaxUserCalls == 2       \* insert_user, update_user, upsert_user calls made over all connections

Conns == 1..NumConns

CastError == [t |-> "error", v |-> <<"cast">>]

\* columns of type TIMESTAMPTZ (both tables)
TimestampCols == {"created_at", "updated_at"}

\* bridge_transfers: id TEXT PRIMARY KEY; state, created_at, updated_at NOT NULL
TransferNotNull == {"id", "state", "created_at", "updated_at"}

\* PostgreSQL's input of a value for a TIMESTAMPTZ column
PgTimestamptz(v) ==
    IF v.t = "datetime"
    THEN IF v.v[3] = "naive" THEN DateTime(v.v[1], v.v[2], "session") ELSE v
    ELSE IF v.t = "str"
    THEN LET s == v.v
         IN  IF Len(s) = 4 /\ s[1] \in Dates /\ s[2] = "T" /\ s[3] \in Times
                /\ s[4] \in {"Z", "+00:00"}
             THEN DateTime(s[1], s[3], "+00:00")
             ELSE IF Len(s) = 3 /\ s[1] \in Dates /\ s[2] = "T" /\ s[3] \in Times
             THEN DateTime(s[1], s[3], "session")
             ELSE IF Len(s) = 1 /\ s[1] \in Dates
             THEN DateTime(s[1], "00:00:00", "session")
             ELSE CastError
    ELSE CastError

\* the value stored in column col for the bound parameter v (None is NULL)
PgCast(col, v) ==
    IF v.t = "null" THEN NoneVal
    ELSE IF col \in TimestampCols THEN PgTimestamptz(v)
    ELSE v

\* the row `INSERT INTO t (cols) VALUES (vals)` proposes
ProposedRow(cols, vals) ==
    [c \in { cols[i] : i \in { j \in DOMAIN cols : PgCast(cols[j], vals[j]).t # "null" } } |->
        PgCast(c, vals[CHOOSE i \in DOMAIN cols : cols[i] = c])]

\* some bound parameter cannot be converted to its column's type
HasCastError(cols, vals) ==
    \E i \in DOMAIN cols : PgCast(cols[i], vals[i]) = CastError

\* the indexes of the rows of a table whose id is the value v
RowsWithId(table, v) ==
    { i \in DOMAIN table : "id" \in DOMAIN table[i] /\ table[i]["id"] = v }

\* SetFromExcluded with the row replaced by the proposed row
SetWholeRow(r, excluded, setcols) == [c \in DOMAIN excluded \cup {"id"} |->
                                        IF c = "id" THEN r["id"] ELSE excluded[c]]

\* SetFromExcluded keeping the existing value of a column that has one
SetWhereNull(r, excluded, setcols) ==
    [c \in DOMAIN r \cup (DOMAIN excluded \cap setcols) |->
        IF c \in DOMAIN r THEN r[c] ELSE excluded[c]]

\* r with the SET columns taken from the proposed row (NULL where it has none)
SetFromExcluded(r, excluded, setcols) ==
    [c \in (DOMAIN r \ setcols) \cup (DOMAIN excluded \cap setcols) |->
        IF c \in setcols THEN excluded[c] ELSE r[c]]

\* OnConflictDoUpdate without the ON CONFLICT clause taking effect: always a new row
OnConflictAlwaysInsert(table, row, setcols) ==
    [table |-> "bridge_transfers", kind |-> "insert", row |-> row,
     setcols |-> {}, idx |-> {}]

\* INSERT ... ON CONFLICT (id) DO UPDATE SET c = EXCLUDED.c for c in setcols,
\* executed on the rows the statement sees: the write it makes, a new row when
\* no row has the id and else an update of the row that has it
OnConflictDoUpdate(table, row, setcols) ==
    LET hit == RowsWithId(table, row["id"])
    IN  IF hit = {}
        THEN [table |-> "bridge_transfers", kind |-> "insert", row |-> row,
              setcols |-> {}, idx |-> {}]
        ELSE [table |-> "bridge_transfers", kind |-> "update", row |-> row,
              setcols |-> setcols, idx |-> hit]

\* UPDATE ... SET c = <value> (for c in setcols) on the rows at the indexes idx
UpdateRows(table, idx, row, setcols) ==
    [i \in DOMAIN table |->
        IF i \in idx THEN SetFromExcluded(table[i], row, setcols) ELSE table[i]]

\* Committed with an update done as delete-and-reinsert
CommittedReplacing(table, write) ==
    IF write.kind = "insert"
    THEN Append(table, write.row)
    ELSE LET kept == SelectSeq(table, LAMBDA r : \A i \in write.idx : table[i] # r)
         IN  kept \o [j \in 1..(Len(table) - Len(kept)) |->
                         SetFromExcluded(table[CHOOSE i \in write.idx : TRUE],
                                         write.row, write.setcols)]

\* Committed with an insert that is dropped when a row already has the id
CommittedUnlessPresent(table, write) ==
    IF write.kind = "insert"
    THEN IF "id" \in DOMAIN write.row /\ RowsWithId(table, write.row["id"]) # {}
         THEN table
         ELSE Append(table, write.row)
    ELSE UpdateRows(table, write.idx, write.row, write.setcols)

\* COMMIT makes the transaction's write part of the table
Committed(table, write) ==
    IF write.kind = "insert"
    THEN Append(table, write.row)
    ELSE UpdateRows(table, write.idx, write.row, write.setcols)

(***************************************************************************)
(* The Bridge API client (utils/api_functions.py).  What the network gives *)
(* for a request is a response (status code and body text) or an exception *)
(* of requests (ConnectionError, Timeout).  A function's result is the     *)
(* value it returns or the exception it raises.                            *)
(***************************************************************************)
Num(n) == [t |-> "int", v |-> <<n>>]
Bool(b) == [t |-> "bool", v |-> <<b>>]
Tuple(a, b, c) == [t |-> "tuple", v |-> <<a, b, c>>]

Response(status_code, text) == [kind |-> "response", status_code |-> status_code, text |-> text]
RequestError(e) == [kind |-> "error", status_code |-> 0, text |-> e]
NoNet == [kind |-> "none", status_code |-> 0, text |-> "none"]

Return(v) == [kind |-> "return", val |-> v]
Raise(e) == [kind |-> "raise", val |-> Str(<<e>>)]
NoResult == [kind |-> "none", val |-> NoneVal]

StatusCodes == {200, 201, 404, 500}
Bodies == {"addresses", "addresses_upper", "addresses_noid", "addresses_other",
           "addresses_noaddress", "message", "transfer", "html"}
RequestErrors == {"ConnectionError", "Timeout"}

NetOutcomes ==
    { Response(s, b) : s \in StatusCodes, b \in Bodies } \cup { RequestError(e) : e \in RequestErrors }

\* response.ok
ok(status_code) == status_code < 400

AddressItem(id, address) ==
    Dict((IF id = "none" THEN <<>> ELSE << << <<"id">>, Str(<<id>>) >> >>)
         \o (IF address = "none" THEN <<>> ELSE << << <<"address">>, Str(<<address>>) >> >>)
         \o << << <<"developer", "_", "fee">>,
                  Dict(<< << <<"percent">>, Str(<<"1.0">>) >> >>) >> >>)

\* response.json() / json.loads of the body texts (ParseError: not JSON)
json(text) ==
    IF text = "addresses"
    THEN Dict(<< << <<"data">>, List(<< AddressItem("la0", "0xdef"), AddressItem("la1", "0xabc") >>) >> >>)
    ELSE IF text = "addresses_upper"
    THEN Dict(<< << <<"data">>, List(<< AddressItem("la1", "0xABC") >>) >> >>)
    ELSE IF text = "addresses_noid"
    THEN Dict(<< << <<"data">>, List(<< AddressItem("none", "0xabc") >>) >> >>)
    ELSE IF text = "addresses_other"
    THEN Dict(<< << <<"data">>, List(<< AddressItem("la0", "0xdef") >>) >> >>)
    ELSE IF text = "addresses_noaddress"
    THEN Dict(<< << <<"data">>, List(<< AddressItem("la1", "none") >>) >> >>)
    ELSE IF text = "message"
    THEN Dict(<< << <<"message">>, Str(<<"Unauthorized">>) >> >>)
    ELSE IF text = "transfer"
    THEN Dict(<< << <<"on_behalf_of">>, Str(<<"cust1">>) >> >>)
    ELSE ParseError

\* str.lower() on the addresses used
lower(s) == IF s = <<"0xABC">> THEN <<"0xabc">> ELSE s

\* lines 31-36: the loop over data.get("data", []) from item i on; an item
\* without "address" raises KeyError, which line 38 turns into None
RECURSIVE FindAddress(_, _, _)
FindAddress(items, i, address_to_find) ==
    IF i > Len(items) THEN NoneVal
    ELSE IF ~HasKey(items[i].v, <<"address">>) THEN NoneVal
    ELSE IF lower(Get(items[i].v, <<"address">>).v) = lower(address_to_find)
    THEN items[i]
    ELSE FindAddress(items, i + 1, address_to_find)

get_liquidation_address_id(net, address_to_find) ==
    IF net.kind = "error" THEN Return(NoneVal)
    ELSE IF net.status_code # 200 THEN Return(NoneVal)
    ELSE LET data == json(net.text)
         IN  IF data = ParseError THEN Return(NoneVal)
             ELSE IF ~HasKey(data.v, <<"data">>) THEN Return(NoneVal)
             ELSE Return(FindAddress(Get(data.v, <<"data">>).v, 1, address_to_find))

update_static_transfer_fee(net) ==
    IF net.kind = "error"
    THEN Return(Tuple(NoneVal, Str(<<net.text>>), Bool(FALSE)))
    ELSE Return(Tuple(Num(net.status_code), Str(<<net.text>>), Bool(TRUE)))

update_developer_fee(net) ==
    IF net.kind = "error"
    THEN Return(Tuple(NoneVal, Str(<<net.text>>), Bool(FALSE)))
    ELSE Return(Tuple(Num(net.status_code), Str(<<net.text>>), Bool(TRUE)))

\* no try: the exception of requests.post leaves the function
create_virtual_accounts(net) ==
    IF net.kind = "error" THEN Raise(net.text)
    ELSE Return(Tuple(Num(net.status_code), Str(<<net.text>>), Bool(TRUE)))

\* no try: the exception of requests.get leaves the function
get_virtual_accounts(net) ==
    IF net.kind = "error" THEN Raise(net.text)
    ELSE Return(Tuple(Num(net.status_code), Str(<<net.text>>), Bool(TRUE)))

TransferResult(status_code, success, data, headers) ==
    Dict(<< << <<"status", "_", "code">>, Num(status_code) >>,
            << <<"success">>, Bool(success) >>,
            << <<"data">>, data >>,
            << <<"headers">>, headers >> >>)

ErrorData(text) == Dict(<< << <<"error">>, Str(<<text>>) >> >>)

ResponseHeaders == Dict(<< << <<"content-type">>, Str(<<"text">>) >> >>)

\* line 157: response.json() of a body that is not JSON raises
\* JSONDecodeError, which is a RequestException (and so caught at line 160)
\* from requests 2.27 on and a plain ValueError before: json_is_request_error
create_transfer(net, json_is_request_error) ==
    IF net.kind = "error"
    THEN Return(TransferResult(0, FALSE, ErrorData(net.text), Dict(<<>>)))
    ELSE IF ~ok(net.status_code)
    THEN Return(TransferResult(net.status_code, FALSE, ErrorData(net.text), ResponseHeaders))
    ELSE IF json(net.text) = ParseError
    THEN IF json_is_request_error
         THEN Return(TransferResult(0, FALSE, ErrorData("JSONDecodeError"), Dict(<<>>)))
         ELSE Raise("JSONDecodeError")
    ELSE Return(TransferResult(net.status_code, TRUE, json(net.text), ResponseHeaders))

\* fetch_client_data and fetch_transfer_data: raise_for_status, no try
fetch_client_data(net) ==
    IF net.kind = "error" THEN Raise(net.text)
    ELSE IF ~ok(net.status_code) THEN Raise("HTTPError")
    ELSE IF json(net.text) = ParseError THEN Raise("JSONDecodeError")
    ELSE Return(json(net.text))

fetch_transfer_data(net) == fetch_client_data(net)

ApiFunctions ==
    {"get_liquidation_address_id", "update_static_transfer_fee", "update_developer_fee",
     "create_virtual_accounts", "get_virtual_accounts", "create_transfer",
     "fetch_client_data", "fetch_transfer_data"}

\* the wallet address the callers look for
WalletAddress == <<"0xabc">>

\* the result of function fn when the network gives net
ApiResult(fn, net, json_is_request_error) ==
    IF fn = "get_liquidation_address_id" THEN get_liquidation_address_id(net, WalletAddress)
    ELSE IF fn = "update_static_transfer_fee" THEN update_static_transfer_fee(net)
    ELSE IF fn = "update_developer_fee" THEN update_developer_fee(net)
    ELSE IF fn = "create_virtual_accounts" THEN create_virtual_accounts(net)
    ELSE IF fn = "get_virtual_accounts" THEN get_virtual_accounts(net)
    ELSE IF fn = "create_transfer" THEN create_transfer(net, json_is_request_error)
    ELSE IF fn = "fetch_client_data" THEN fetch_client_data(net)
    ELSE fetch_transfer_data(net)

(***************************************************************************)
(* The screens' submit handlers (screens/*.py).  filled is the set of text *)
(* inputs the user left non-empty; select boxes always hold a value.  A    *)
(* handler's outcome: the requests it sent, the messages it showed, and    *)
(* the exception that ended it ("none" when it ran to its end).            *)
(***************************************************************************)
Msg(level, text) == [level |-> level, text |-> text]

Outcome(nreq, msgs, exc) == [nreq |-> nreq, msgs |-> msgs, exc |-> exc]

FeeRequired == {"customer_id", "liq_address", "fee_val", "api_key"}

\* fee_modification_screen.py lines 32-72 (col1)
FeeColumn1(filled, net1, net2, log_saved) ==
    IF ~(FeeRequired \subseteq filled)
    THEN Outcome(0, << Msg("error", "empty_fields") >>, "none")
    ELSE LET liq_address_info == get_liquidation_address_id(net1, WalletAddress).val
         IN  IF liq_address_info = NoneVal
             THEN Outcome(1, << Msg("error", "address_not_found") >>, "none")
             ELSE IF ~HasKey(liq_address_info.v, <<"id">>)
             THEN Outcome(1, << Msg("error", "no_address_id") >>, "none")
             ELSE LET r == update_developer_fee(net2).val.v
                  IN  IF r[3] = Bool(TRUE)
                      THEN Outcome(2,
                               << Msg("code", net2.text) >>
                               \o (IF r[1] = Num(200)
                                   THEN << Msg("success", "fee_updated") >>
                                        \o (IF log_saved THEN << Msg("info", "log_saved") >>
                                            ELSE <<>>)
                                   ELSE << Msg("warning", "status_code") >>),
                               "none")
                      ELSE Outcome(2, << Msg("error", "unexpected") >>, "none")

\* fee_modification_screen.py lines 75-80 (col2): the lookup made on every
\* submission, and the table shown when it found the address
FeeColumn2(net3) ==
    IF get_liquidation_address_id(net3, WalletAddress).val # NoneVal
    THEN Outcome(1, << Msg("dataframe", "address_info") >>, "none")
    ELSE Outcome(1, <<>>, "none")

AccountRequired == {"customer_id", "api_key"}

\* virtual_account_screen.py lines 40-71
CreateAccountHandler(filled, net) ==
    IF ~(AccountRequired \subseteq filled)
    THEN Outcome(0, << Msg("error", "empty_fields") >>, "none")
    ELSE LET r == create_virtual_accounts(net)
         IN  IF r.kind = "raise" THEN Outcome(1, <<>>, r.val.v[1])
             ELSE Outcome(1,
                      << Msg("code", net.text) >>
                      \o (IF r.val.v[1] = Num(201)
                          THEN << Msg("success", "account_created"),
                                  Msg("download", "virtual_account_info.json") >>
                          ELSE << Msg("warning", "status_code") >>),
                      "none")

\* virtual_account_screen.py lines 83-102
ClientAccountsHandler(filled, net) ==
    IF AccountRequired \subseteq filled
    THEN LET r == get_virtual_accounts(net)
         IN  IF r.kind = "raise" THEN Outcome(1, <<>>, r.val.v[1])
             ELSE IF \/ json(net.text) = ParseError
                     \/ json_response_to_flat_csv_bytes(json(net.text)).status = "raised"
             THEN Outcome(1, << Msg("error", "processing_json") >>, "none")
             ELSE Outcome(1, << Msg("download", "client_accounts.csv") >>, "none")
    ELSE Outcome(0, <<>>, "none")

TransferTypes == {"crypto_to_fiat", "fiat_to_crypto", "crypto_to_crypto"}

\* the text inputs validate_form requires for the type, in its order (the
\* rails and currencies it also requires come from select boxes)
TypeFields(transfer_type) ==
    IF transfer_type = "crypto_to_crypto" THEN <<"from_address", "to_address">>
    ELSE IF transfer_type = "crypto_to_fiat" THEN <<"from_address_crypto", "bank_account">>
    ELSE <<"bank_account_in", "to_address_crypto_in">>

\* transfer_screen.py lines 64-109: one error per required field left empty
validate_form(transfer_type, filled) ==
    LET required == <<"api_key", "amount">> \o TypeFields(transfer_type)
        empty == SelectSeq(required, LAMBDA f : f \notin filled)
    IN  [i \in DOMAIN empty |-> Msg("error", empty[i])]

\* transfer_screen.py lines 222-299
TransferHandler(transfer_type, filled, net, json_is_request_error, log_saved) ==
    IF "api_key" \notin filled
    THEN Outcome(0, << Msg("error", "api_key") >>, "none")
    ELSE IF validate_form(transfer_type, filled) # <<>>
    THEN Outcome(0, validate_form(transfer_type, filled), "none")
    ELSE LET r == create_transfer(net, json_is_request_error)
         IN  IF r.kind = "raise" THEN Outcome(1, <<>>, r.val.v[1])
             ELSE IF Get(r.val.v, <<"success">>) = Bool(TRUE)
             THEN Outcome(1,
                      << Msg("success", "transfer_created") >>
                      \o (IF log_saved THEN << Msg("info", "log_saved") >> ELSE <<>>),
                      "none")
             ELSE Outcome(1, << Msg("error", "status_code") >>, "none")

(***************************************************************************)
(* The fee log (utils/logging_functions.py lines 9-61).  A str is the      *)
(* sequence of its characters (a run of ordinary characters is written as  *)
(* one element), the CSV file is the sequence of the characters written to *)
(* it, and a DataFrame is its column names and its rows of typed values.   *)
(***************************************************************************)
MaxSaves == 3
MaxLimit == 3

CR == "\r"
LF == "\n"
Comma == ","
Quote == "\""

\* lines 21-28: the keys of log_entry, which become the columns
LogColumns == << <<"timestamp">>, <<"customer_id">>, <<"liq_address">>, <<"fee_val">>,
                 <<"status_code">>, <<"response">> >>

\* lines 21-28 (status_code is an int, the others are str)
log_entry(timestamp, customer_id, liq_address, fee_val, status_code, response_text) ==
    <<timestamp, customer_id, liq_address, fee_val, status_code, response_text>>

\* the text of each value of a row: a str as it is, the int status_code in
\* decimal
Cells(entry) ==
    [i \in DOMAIN entry |->
        IF LogColumns[i] = <<"status_code">> THEN <<ToString(entry[i])>> ELSE entry[i]]

RECURSIVE DoubleQuotes(_)
DoubleQuotes(s) ==
    IF s = <<>> THEN <<>>
    ELSE (IF Head(s) = Quote THEN <<Quote, Quote>> ELSE <<Head(s)>>) \o DoubleQuotes(Tail(s))

\* csv.writer with QUOTE_MINIMAL and lineterminator "\n", as to_csv uses it:
\* a field is quoted when it holds the delimiter, the quote character or a
\* character of the line terminator
WriteField(s) ==
    IF \E i \in DOMAIN s : s[i] \in {Comma, Quote, LF}
    THEN <<Quote>> \o DoubleQuotes(s) \o <<Quote>>
    ELSE s

RECURSIVE WriteRow(_)
WriteRow(cells) ==
    IF Len(cells) = 1 THEN WriteField(cells[1]) \o <<LF>>
    ELSE WriteField(Head(cells)) \o <<Comma>> \o WriteRow(Tail(cells))

\* lines 33-36: DataFrame([log_entry]).to_csv, appending without header to a
\* file that exists, creating it with the header otherwise
to_csv(exists, file, entry) ==
    IF exists THEN file \o WriteRow(Cells(entry))
    ELSE WriteRow(LogColumns) \o WriteRow(Cells(entry))

\* the record a CSV reader finds in text from position i on, and the
\* position after it: outside quotes "\n", "\r" and "\r\n" each end a record;
\* state is "field" (in an unquoted field or at its start), "quoted" or
\* "quote" (a quote seen inside a quoted field)
RECURSIVE ReadRecord(_, _, _, _, _)
ReadRecord(text, i, state, field, row) ==
    IF i > Len(text)
    THEN [row |-> Append(row, field), blank |-> field = <<>> /\ row = <<>>, next |-> i]
    ELSE LET c == text[i]
         IN  IF state = "quoted"
             THEN IF c = Quote THEN ReadRecord(text, i + 1, "quote", field, row)
                  ELSE ReadRecord(text, i + 1, "quoted", Append(field, c), row)
             ELSE IF state = "quote" /\ c = Quote
             THEN ReadRecord(text, i + 1, "quoted", Append(field, c), row)
             ELSE IF c = Comma THEN ReadRecord(text, i + 1, "field", <<>>, Append(row, field))
             ELSE IF c \in {LF, CR}
             THEN [row |-> Append(row, field),
                   blank |-> field = <<>> /\ row = <<>> /\ state = "field",
                   next |-> IF c = CR /\ i < Len(text) /\ text[i + 1] = LF THEN i + 2
                            ELSE i + 1]
             ELSE IF c = Quote /\ state = "field" /\ field = <<>>
             THEN ReadRecord(text, i + 1, "quoted", field, row)
             ELSE ReadRecord(text, i + 1, state, Append(field, c), row)

\* the records of text from position i on; blank lines are skipped
RECURSIVE Records(_, _)
Records(text, i) ==
    IF i > Len(text) THEN <<>>
    ELSE LET r == ReadRecord(text, i, "field", <<>>, <<>>)
         IN  (IF r.blank THEN <<>> ELSE << r.row >>) \o Records(text, r.next)

\* pandas.read_csv decides a column's type from all of its fields: int64
\* when every field is an integer, float64 when every field is a number or
\* empty, object (str) otherwise; an empty or missing field is NaN
IntTexts == { <<"200">>, <<"404">> }
FloatTexts == { <<"1.0">> }
NaN == [dtype |-> "float64", v |-> <<"NaN">>]

ColumnType(texts) ==
    IF texts \subseteq IntTexts /\ texts # {} THEN "int64"
    ELSE IF texts \subseteq IntTexts \cup FloatTexts \cup {<<>>} THEN "float64"
    ELSE "object"

\* the frame of a header record and data records none of which is longer
\* than the header: a shorter record is filled up with NaN
Frame(header, data) ==
    LET cell(i, j) == IF j <= Len(data[i]) THEN data[i][j] ELSE <<>>
        dtype(j) == ColumnType({ cell(i, j) : i \in DOMAIN data })
    IN  [columns |-> header,
         rows |-> [i \in DOMAIN data |->
                      [j \in DOMAIN header |->
                          IF cell(i, j) = <<>> THEN NaN
                          ELSE [dtype |-> dtype(j), v |-> cell(i, j)]]]]

\* pd.DataFrame()
EmptyFrame == [columns |-> <<>>, rows |-> <<>>]

\* pandas.read_csv: the first record names the columns; it raises for an
\* empty file (EmptyDataError) and for a record longer than the header
\* (ParserError)
read_csv(file) ==
    LET records == Records(file, 1)
    IN  IF records = <<>> THEN [raised |-> TRUE, df |-> EmptyFrame]
        ELSE IF \E i \in DOMAIN records : Len(records[i]) > Len(records[1])
        THEN [raised |-> TRUE, df |-> EmptyFrame]
        ELSE [raised |-> FALSE, df |-> Frame(records[1], Tail(records))]

\* DataFrame.tail(limit), limit >= 0
tail(df, limit) ==
    [columns |-> df.columns,
     rows |-> SubSeq(df.rows,
                     Len(df.rows) - (IF limit < Len(df.rows) THEN limit ELSE Len(df.rows)) + 1,
                     Len(df.rows))]

\* lines 53-61
get_fee_logs(exists, file, limit) ==
    IF ~exists THEN EmptyFrame
    ELSE IF read_csv(file).raised THEN EmptyFrame
    ELSE tail(read_csv(file).df, limit)

\* arguments of save_fee_log (fee_modification_screen.py lines 61-63):
\* fee_val is a text input, status_code and response_text come from any
\* response; the last two texts hold a lone carriage return, and a comma, a
\* quote and a line break
FeeLogArgs ==
    { << <<"1.0">>, 200, <<"ok">> >>,
      << <<"abc">>, 404, <<>> >>,
      << <<"1.0">>, 200, <<"a", CR, "b">> >>,
      << <<"1.0">>, 404, <<"a", Comma, Quote, "b", CR, LF, "c">> >> }

(***************************************************************************)
(* The application's main (FeeModification_app.py).  The session state is  *)
(* a function from keys to values.                                         *)
(***************************************************************************)
\* the options of the sidebar selectbox, in its order
Screens == <<"Inicio", "Liquidation Address Fee", "Transfers", "Analisis de Transferencias",
             "Crear virtual account", "Contacto">>

\* lines 16-20
FormKeys == {"customer_id", "liq_address", "fee_val", "api_key", "source_currency",
             "destination_currency", "payment_rail", "address", "blockchain_memo",
             "bridge_wallet_id"}

\* session[key] = value
SetKey(session, key, value) ==
    [k \in DOMAIN session \cup {key} |-> IF k = key THEN value ELSE session[k]]

\* lines 15-23
limpiar_formularios(session) == [k \in DOMAIN session \ FormKeys |-> session[k]]

\* lines 43-52 on the session state the run starts with: a selectbox with
\* key="pantalla" returns the value the session holds under that key (its
\* first option when there is none) and keeps it there
main(session) ==
    LET pantalla_actual == IF "pantalla" \in DOMAIN session THEN session["pantalla"]
                           ELSE "Inicio"
        pantalla == IF "pantalla" \in DOMAIN session THEN session["pantalla"]
                    ELSE Screens[1]
        widget == SetKey(session, "pantalla", pantalla)
    IN  IF pantalla # pantalla_actual
        THEN [session |-> SetKey(limpiar_formularios(widget), "pantalla", pantalla),
              pantalla |-> pantalla, cleared |-> TRUE]
        ELSE [session |-> widget, pantalla |-> pantalla, cleared |-> FALSE]

\* the text inputs the screens render, none of them with a key
\* (fee_modification_screen.py lines 21-27, virtual_account_screen.py lines 26-35)
ScreenInputs(pantalla) ==
    IF pantalla = "Liquidation Address Fee"
    THEN {"customer_id", "liq_address", "fee_val", "api_key"}
    ELSE IF pantalla = "Crear virtual account"
    THEN {"customer_id", "address", "blockchain_memo", "bridge_wallet_id",
          "developer_fee_percent", "api_key"}
    ELSE {}

(***************************************************************************)
(* The request create_virtual_accounts sends.  Here a str is the sequence  *)
(* of its characters, and + is \o.                                         *)
(***************************************************************************)
NoCall == [args |-> <<>>, headers |-> <<>>]

\* api_functions.py lines 93-103
create_virtual_accounts_payload(customer_id, source_currency, destination_currency, payment_rail, address, blockchain_memo, bridge_wallet_id, developer_fee_percent, api_key) ==
    [source_currency |-> source_currency,
     destination_currency |-> destination_currency,
     payment_rail |-> payment_rail,
     address |-> address,
     blockchain_memo |-> blockchain_memo,
     bridge_wallet_id |-> bridge_wallet_id,
     developer_fee_percent |-> developer_fee_percent]

\* the headers keyed on the memo as well
headers_keyed_with_memo(customer_id, source_currency, destination_currency, payment_rail, address, blockchain_memo, bridge_wallet_id, developer_fee_percent, api_key) ==
    [Idempotency_Key |-> customer_id \o address \o source_currency \o destination_currency
                         \o payment_rail \o blockchain_memo,
     Api_Key |-> api_key]

\* api_functions.py lines 104-109
create_virtual_accounts_headers(customer_id, source_currency, destination_currency, payment_rail, address, blockchain_memo, bridge_wallet_id, developer_fee_percent, api_key) ==
    [Idempotency_Key |-> customer_id \o address \o source_currency \o destination_currency
                         \o payment_rail,
     Api_Key |-> api_key]

\* the text inputs and select-box options of the virtual-account form
\* (virtual_account_screen.py lines 26-36) used here
CustomerIds == { <<"c", "1">>, <<"c", "1", "2">> }
Addresses == { <<>>, <<"2">> }
SourceCurrencies == { <<"u", "s", "d">>, <<"e", "u", "r">> }
DestinationCurrencies == { <<"u", "s", "d", "c">>, <<"d", "a", "i">> }
PaymentRails == { <<"b", "a", "s", "e">>, <<"t", "r", "o", "n">> }

OtherInput(blockchain_memo, bridge_wallet_id, developer_fee_percent, api_key) ==
    [blockchain_memo |-> blockchain_memo, bridge_wallet_id |-> bridge_wallet_id,
     developer_fee_percent |-> developer_fee_percent, api_key |-> api_key]

\* the inputs that are not part of the key: one base choice, one that
\* differs from it in each input, and one that differs in all
OtherInputs ==
    { OtherInput(<<>>, <<>>, <<>>, <<"k", "1">>),
      OtherInput(<<"m">>, <<>>, <<>>, <<"k", "1">>),
      OtherInput(<<>>, <<"w">>, <<>>, <<"k", "1">>),
      OtherInput(<<>>, <<>>, <<"1", ".", "0">>, <<"k", "1">>),
      OtherInput(<<>>, <<>>, <<>>, <<"k", "2">>),
      OtherInput(<<"m">>, <<"w">>, <<"1", ".", "0">>, <<"k", "2">>) }

\* NewPDF.py lines 521-558: the transfer is fetched, then the customer named
\* by its on_behalf_of; either fetch raising ends the call
generate_wire_transfer_pdf(net1, net2) ==
    LET transfer_json == fetch_transfer_data(net1)
    IN  IF transfer_json.kind = "raise" THEN Outcome(1, <<>>, transfer_json.val.v[1])
        ELSE IF \/ ~HasKey(transfer_json.val.v, <<"on_behalf_of">>)
                \/ ~Truthy(Get(transfer_json.val.v, <<"on_behalf_of">>))
        THEN Outcome(1, <<>>, "ValueError")
        ELSE LET client_json == fetch_client_data(net2)
             IN  IF client_json.kind = "raise" THEN Outcome(2, <<>>, client_json.val.v[1])
                 ELSE Outcome(2, << Msg("file", "wire_transfer_report.pdf") >>, "none")

(***************************************************************************)
(* State of the flattener / mapper runs (SpecFlat).                        *)
(***************************************************************************)
VARIABLES
    p_raw,      \* the raw record given to the flattener
    p_pc,       \* "input", "flat", "export", "again", "map_transfer", "map_insert",
                \* "map_update", "renested"
    p_fn,       \* which flattener ran: "_flatten", "_flatten_json", "flatten_dict"
                \* or "flatten_json"
    p_flat,     \* the flattener's result
    p_map,      \* the column mapper's result [cols, vals]
    p_nested,   \* the re-nested mapping
    p_again     \* the result of flattening p_flat once more

pvars == <<p_raw, p_pc, p_fn, p_flat, p_map, p_nested, p_again>>

(***************************************************************************)
(* State of the CSV exports (SpecCsv).                                     *)
(***************************************************************************)
VARIABLES
    c_list,     \* the records of the response being put together
    c_pc,       \* "input", "done" ("idle" in the other specifications)
    c_fn,       \* the export that ran: "save_to_csv" or "json_response_to_flat_csv_bytes"
    c_data,     \* the response given to the export
    c_io,       \* whether the file system took the write
    c_out       \* the file written: [status, header, rows]

cvars == <<c_list, c_pc, c_fn, c_data, c_io, c_out>>

(***************************************************************************)
(* State of the normalizer runs (SpecNormalize).                           *)
(***************************************************************************)
VARIABLES
    n_flat,     \* the flat record given to _normalize
    n_pc,       \* "input", "done" ("idle" in the other specifications)
    n_norm      \* the record _normalize returned

nvars == <<n_flat, n_pc, n_norm>>

(***************************************************************************)
(* State of the API client calls (SpecApi).                                *)
(***************************************************************************)
VARIABLES
    a_pc,       \* "ready", "request", "waiting", "done" ("idle" in the other specifications)
    a_fn,       \* the function called
    a_net,      \* what the network gave for the request
    a_ret,      \* the function's result
    a_nreq      \* HTTP requests the call has sent

avars == <<a_pc, a_fn, a_net, a_ret, a_nreq>>

(***************************************************************************)
(* State of the screens (SpecUi).                                          *)
(***************************************************************************)
VARIABLES
    u_pc,       \* "form", "submitted" ("idle" in the other specifications)
    u_form,     \* the form submitted
    u_type,     \* the transfer type selected ("none" on the other forms)
    u_filled,   \* the text inputs that were not empty
    u_nreq,     \* HTTP requests the handler sent
    u_msgs,     \* what the handler showed
    u_exc       \* the exception that ended the handler, or "none"

uvars == <<u_pc, u_form, u_type, u_filled, u_nreq, u_msgs, u_exc>>

(***************************************************************************)
(* The last two create_virtual_accounts calls (SpecKeys).                  *)
(***************************************************************************)
VARIABLES
    k_prev,     \* the call before the last one (NoCall before the second call)
    k_last      \* the last call: its arguments and the headers it sent

kvars == <<k_prev, k_last>>

(***************************************************************************)
(* State of the application's session (SpecNav).                           *)
(***************************************************************************)
VARIABLES
    s_session,  \* st.session_state: key -> value
    s_prev,     \* the screen shown by the run before the last one
    s_shown,    \* the screen shown by the last run of main ("none": no run yet)
    s_cleared,  \* whether the last run of main called limpiar_formularios
    s_widgets   \* the text inputs of the shown screen that hold text

svars == <<s_session, s_prev, s_shown, s_cleared, s_widgets>>

(***************************************************************************)
(* State of a run of create_table, create_users_table or the insert        *)
(* script's main (SpecScripts).                                            *)
(***************************************************************************)
VARIABLES
    g_fn,       \* the function running ("none": no run yet)
    g_pc,       \* where the run is; "done" when the function was left
    g_conn,     \* the local conn: "unbound", "None", "open", "closed"
    g_cursor,   \* the local cursor: "unbound", "None", "open", "closed"
    g_tx,       \* the connection's transaction: "idle", "intrans", "inerror"
    g_exc,      \* the exception that left the function ("none": it returned)
    g_tables,   \* the tables that exist in the database
    g_inserted  \* whether table users holds the row of user_123

gvars == <<g_fn, g_pc, g_conn, g_cursor, g_tx, g_exc, g_tables, g_inserted>>

(***************************************************************************)
(* State of the fee log (SpecFeeLog).                                      *)
(***************************************************************************)
VARIABLES
    l_exists,   \* os.path.isfile(csv_file)
    l_file,     \* the CSV file: its rows, each the sequence of its field texts
    l_calls,    \* the log entries of the save_fee_log calls that returned True
    l_allok,    \* no save_fee_log call has failed so far
    l_clock,    \* save_fee_log calls made (the clock behind datetime.utcnow())
    l_op,       \* the last function called ("none": no call yet)
    l_limit,    \* the limit of the last get_fee_logs call
    l_ret       \* what the last call returned

lvars == <<l_exists, l_file, l_calls, l_allok, l_clock, l_op, l_limit, l_ret>>

yvars == <<kvars, svars, gvars, lvars>>

xvars == <<cvars, nvars, avars, uvars, yvars>>

(***************************************************************************)
(* The callers.  Each connection is used by one sequential caller that     *)
(* makes one call after the other; a call is cut at its round trips to the *)
(* database (cursor.execute, conn.commit), between which the other         *)
(* connections may act.                                                    *)
(***************************************************************************)
VARIABLES
    bridge_transfers,   \* committed rows of table bridge_transfers
    users,              \* committed rows of table users
    tx,                 \* tx[c]: "idle", "intrans" or "inerror"
    pending,            \* pending[c]: the uncommitted write of c's transaction
    pc,                 \* pc[c]: where c's caller is
    call,               \* call[c]: [fn, rec], the call c's caller is in (or made last)
    stmt,               \* stmt[c]: the statement built: columns, parameters, id
    exists,             \* exists[c]: what upsert_user's SELECT fetched
    ret,                \* ret[c]: how the last call ended
    nexec,              \* nexec[c]: cursor.execute calls made by the call
    prev,               \* prev[c]: [fn, rec, ret] of the call before
    ncalls,             \* calls begun so far
    upserted            \* ids whose upsert_bridge_transfer was committed

dbvars == <<bridge_transfers, users, tx, pending, pc, call, stmt, exists, ret,
            nexec, prev, ncalls, upserted>>

vars == <<dbvars, pvars, xvars>>

NoMap == [cols |-> <<>>, vals |-> <<>>]

InitPure ==
    /\ p_raw = <<>>
    /\ p_pc = "input"
    /\ p_fn = "none"
    /\ p_flat = <<>>
    /\ p_map = NoMap
    /\ p_nested = <<>>
    /\ p_again = <<>>

NoStmt == [cols |-> <<>>, vals |-> <<>>, id |-> NoneVal]

InitDB ==
    /\ bridge_transfers = <<>>
    /\ users = <<>>
    /\ tx = [c \in Conns |-> "idle"]
    /\ pending = [c \in Conns |-> <<>>]
    /\ pc = [c \in Conns |-> "idle"]
    /\ call = [c \in Conns |-> [fn |-> "none", rec |-> <<>>]]
    /\ stmt = [c \in Conns |-> NoStmt]
    /\ exists = [c \in Conns |-> "none"]
    /\ ret = [c \in Conns |-> "none"]
    /\ nexec = [c \in Conns |-> 0]
    /\ prev = [c \in Conns |-> [fn |-> "none", rec |-> <<>>, ret |-> "none"]]
    /\ ncalls = 0
    /\ upserted = {}

\* the pure part stays at rest in the database specifications, and conversely
PureIdle ==
    /\ p_raw = <<>>
    /\ p_pc = "idle"
    /\ p_fn = "none"
    /\ p_flat = <<>>
    /\ p_map = NoMap
    /\ p_nested = <<>>
    /\ p_again = <<>>

CsvIdle ==
    /\ c_list = <<>>
    /\ c_pc = "idle"
    /\ c_fn = "none"
    /\ c_data = NoneVal
    /\ c_io = TRUE
    /\ c_out = NoFile

NormalizeIdle ==
    /\ n_flat = <<>>
    /\ n_pc = "idle"
    /\ n_norm = <<>>

ApiIdle ==
    /\ a_pc = "idle"
    /\ a_fn = "none"
    /\ a_net = NoNet
    /\ a_ret = NoResult
    /\ a_nreq = 0

UiIdle ==
    /\ u_pc = "idle"
    /\ u_form = "none"
    /\ u_type = "none"
    /\ u_filled = {}
    /\ u_nreq = 0
    /\ u_msgs = <<>>
    /\ u_exc = "none"

KeysIdle ==
    /\ k_prev = NoCall
    /\ k_last = NoCall

NavIdle ==
    /\ s_session = <<>>
    /\ s_prev = "none"
    /\ s_shown = "none"
    /\ s_cleared = FALSE
    /\ s_widgets = {}

ScriptsIdle ==
    /\ g_fn = "none"
    /\ g_pc = "idle"
    /\ g_conn = "unbound"
    /\ g_cursor = "unbound"
    /\ g_tx = "idle"
    /\ g_exc = "none"
    /\ g_tables = {}
    /\ g_inserted = FALSE

FeeLogIdle ==
    /\ l_exists = FALSE
    /\ l_file = <<>>
    /\ l_calls = <<>>
    /\ l_allok = TRUE
    /\ l_clock = 0
    /\ l_op = "none"
    /\ l_limit = 0
    /\ l_ret = FALSE

RestIdle == KeysIdle /\ NavIdle /\ ScriptsIdle /\ FeeLogIdle

OthersIdle == CsvIdle /\ NormalizeIdle /\ ApiIdle /\ UiIdle /\ RestIdle

Init == InitDB /\ PureIdle /\ OthersIdle

\* the caller's record grows by one entry
BuildRecord ==
    /\ p_pc = "input"
    /\ Size(p_raw) < MaxNodes
    /\ \E path \in DictPaths(p_raw) :
           \E k \in RawKeys \ KeysOf(DictAt(p_raw, path)) :
               \E v \in Leaves \cup { Dict(<<>>) } :
                   p_raw' = AppendAt(p_raw, path, <<k, v>>)
    /\ UNCHANGED <<p_pc, p_fn, p_flat, p_map, p_nested, p_again, dbvars, xvars>>

FlattenTransfer ==
    /\ p_pc = "input"
    /\ p_flat' = _flatten(p_raw, <<>>, sep)
    /\ p_fn' = "_flatten"
    /\ p_pc' = "flat"
    /\ UNCHANGED <<p_raw, p_map, p_nested, p_again, dbvars, xvars>>

FlattenUser ==
    /\ p_pc = "input"
    /\ p_flat' = _flatten_json(p_raw, <<>>, sep)
    /\ p_fn' = "_flatten_json"
    /\ p_pc' = "flat"
    /\ UNCHANGED <<p_raw, p_map, p_nested, p_again, dbvars, xvars>>

MapTransfer ==
    /\ p_pc = "flat" /\ p_fn = "_flatten"
    /\ p_map' = TransferColumns(_normalize(p_flat))
    /\ p_pc' = "map_transfer"
    /\ UNCHANGED <<p_raw, p_fn, p_flat, p_nested, p_again, dbvars, xvars>>

MapInsert ==
    /\ p_pc = "flat" /\ p_fn = "_flatten_json"
    /\ p_map' = InsertColumns(p_flat)
    /\ p_pc' = "map_insert"
    /\ UNCHANGED <<p_raw, p_fn, p_flat, p_nested, p_again, dbvars, xvars>>

MapUpdate ==
    /\ p_pc = "flat" /\ p_fn = "_flatten_json"
    /\ p_map' = UpdateColumns(p_flat)
    /\ p_pc' = "map_update"
    /\ UNCHANGED <<p_raw, p_fn, p_flat, p_nested, p_again, dbvars, xvars>>

RenestFlat ==
    /\ p_pc = "flat"
    /\ p_nested' = Renest(p_flat)
    /\ p_pc' = "renested"
    /\ UNCHANGED <<p_raw, p_fn, p_flat, p_map, p_again, dbvars, xvars>>

\* the CSV-export flatteners on the same records
FlattenDict ==
    /\ p_pc = "input"
    /\ p_flat' = flatten_dict(p_raw, <<>>, dot)
    /\ p_fn' = "flatten_dict"
    /\ p_pc' = "export"
    /\ UNCHANGED <<p_raw, p_map, p_nested, p_again, dbvars, xvars>>

FlattenJson ==
    /\ p_pc = "input"
    /\ p_flat' = flatten_json(Dict(p_raw), <<>>, sep)
    /\ p_fn' = "flatten_json"
    /\ p_pc' = "export"
    /\ UNCHANGED <<p_raw, p_map, p_nested, p_again, dbvars, xvars>>

\* p_fn applied to its own result
Reflatten(fn, flat) ==
    IF fn = "_flatten" THEN _flatten(ItemsOf(flat), <<>>, sep)
    ELSE IF fn = "_flatten_json" THEN _flatten_json(ItemsOf(flat), <<>>, sep)
    ELSE IF fn = "flatten_dict" THEN flatten_dict(ItemsOf(flat), <<>>, dot)
    ELSE flatten_json(Dict(ItemsOf(flat)), <<>>, sep)

FlattenAgain ==
    /\ p_pc \in {"flat", "export"}
    /\ p_again' = Reflatten(p_fn, p_flat)
    /\ p_pc' = "again"
    /\ UNCHANGED <<p_raw, p_fn, p_flat, p_map, p_nested, dbvars, xvars>>

NextFlat ==
    \/ BuildRecord
    \/ FlattenTransfer
    \/ FlattenUser
    \/ MapTransfer
    \/ MapInsert
    \/ MapUpdate
    \/ RenestFlat
    \/ FlattenDict
    \/ FlattenJson
    \/ FlattenAgain

InitFlat == InitPure /\ InitDB /\ OthersIdle

SpecFlat == InitFlat /\ [][NextFlat]_vars

(***************************************************************************)
(* The CSV exports on responses of up to MaxRecords records.               *)
(***************************************************************************)
MaxRecords == 2

\* the items of an API response's list: mapping records with nested
\* mappings, lists and None, an empty record, and a value that is no mapping
CsvItems ==
    { Dict(<< << <<"id">>, Str(<<"t1">>) >>, << <<"state">>, Str(<<"pending">>) >> >>),
      Dict(<< << <<"id">>, Str(<<"t2">>) >>,
              << <<"capabilities">>,
                 Dict(<< << <<"payin", "_", "crypto">>, Str(<<"enabled">>) >> >>) >> >>),
      Dict(<< << <<"rails">>, List(<<Str(<<"ach">>),
                                     Dict(<< << <<"id">>, Str(<<"x">>) >> >>)>>) >>,
              << <<"note">>, NoneVal >> >>),
      Dict(<<>>),
      Str(<<"oops">>) }

\* the shapes of response save_to_csv looks for
Wrapped(shape, records) ==
    IF shape = "list" THEN List(records)
    ELSE IF shape = "data" THEN Dict(<< << <<"data">>, List(records) >> >>)
    ELSE IF shape = "transfers" THEN Dict(<< << <<"transfers">>, List(records) >> >>)
    ELSE Dict(<< << <<"id">>, Str(<<"t1">>) >>, << <<"rails">>, List(records) >> >>)

CsvStart ==
    /\ c_list = <<>>
    /\ c_pc = "input"
    /\ c_fn = "none"
    /\ c_data = NoneVal
    /\ c_io = TRUE
    /\ c_out = NoFile

AddRecord ==
    /\ c_pc = "input"
    /\ Len(c_list) < MaxRecords
    /\ \E r \in CsvItems : c_list' = Append(c_list, r)
    /\ UNCHANGED <<c_pc, c_fn, c_data, c_io, c_out, dbvars, pvars, nvars, avars, uvars, yvars>>

SaveToCsv ==
    /\ c_pc = "input"
    /\ \E shape \in {"list", "data", "transfers", "other"}, io_ok \in BOOLEAN :
           /\ c_data' = Wrapped(shape, c_list)
           /\ c_io' = io_ok
           /\ c_out' = save_to_csv(Wrapped(shape, c_list), io_ok)
    /\ c_fn' = "save_to_csv"
    /\ c_pc' = "done"
    /\ UNCHANGED <<c_list, dbvars, pvars, nvars, avars, uvars, yvars>>

JsonResponseToCsv ==
    /\ c_pc = "input"
    /\ \E shape \in {"data", "transfers"} :
           /\ c_data' = Wrapped(shape, c_list)
           /\ c_out' = json_response_to_flat_csv_bytes(Wrapped(shape, c_list))
    /\ c_io' = TRUE
    /\ c_fn' = "json_response_to_flat_csv_bytes"
    /\ c_pc' = "done"
    /\ UNCHANGED <<c_list, dbvars, pvars, nvars, avars, uvars, yvars>>

NextCsv ==
    \/ AddRecord
    \/ SaveToCsv
    \/ JsonResponseToCsv

InitCsv == InitDB /\ PureIdle /\ CsvStart /\ NormalizeIdle /\ ApiIdle /\ UiIdle /\ RestIdle

SpecCsv == InitCsv /\ [][NextCsv]_vars

(***************************************************************************)
(* _normalize on flat records with and without the receipt keys and with   *)
(* the timestamp fields absent or holding one of TimeValues.               *)
(***************************************************************************)
GasValues == { Str(<<"0.1">>), Str(<<"0.2">>), NoneVal }

TimeValues ==
    { Str(<<"2024-01-01", "T", "00:00:00", "Z">>),
      Str(<<"2024-01-01", "T", "00:00:00", "+00:00">>),
      Str(<<"2024-01-01", "T", "00:00:00">>),
      Str(<<"2024-01-01">>),
      Str(<<"2024-01-01", "Z">>),
      Str(<<"yesterday">>),
      Str(<<"yesterday", "Z">>),
      Str(<<"Z">>),
      Str(<<>>),
      NoneVal,
      DateTime("2024-01-01", "00:00:00", "+00:00") }

Absent == [t |-> "absent", v |-> <<>>]

NormalizeKeys == { receipt_gas_fe, receipt_gas_fee, created_at, updated_at }

\* the flat records: each key absent or with one of its values
NormalizeInputs ==
    { [k \in { x \in NormalizeKeys : g[x] # Absent } |-> g[k]] :
        g \in { h \in [NormalizeKeys -> GasValues \cup TimeValues \cup {Absent}] :
                  /\ h[receipt_gas_fe] \in GasValues \cup {Absent}
                  /\ h[receipt_gas_fee] \in GasValues \cup {Absent}
                  /\ h[created_at] \in TimeValues \cup {Absent}
                  /\ h[updated_at] \in TimeValues \cup {Absent} } }

NormalizeStart ==
    /\ n_flat \in NormalizeInputs
    /\ n_pc = "input"
    /\ n_norm = <<>>

Normalize ==
    /\ n_pc = "input"
    /\ n_norm' = _normalize(n_flat)
    /\ n_pc' = "done"
    /\ UNCHANGED <<n_flat, dbvars, pvars, cvars, avars, uvars, yvars>>

NextNormalize == Normalize

InitNormalize == InitDB /\ PureIdle /\ CsvIdle /\ NormalizeStart /\ ApiIdle /\ UiIdle /\ RestIdle

SpecNormalize == InitNormalize /\ [][NextNormalize]_vars

(***************************************************************************)
(* A caller uses the API client: one call at a time, the request sent      *)
(* once, then the network's answer.                                        *)
(***************************************************************************)
ApiStart ==
    /\ a_pc = "ready"
    /\ a_fn = "none"
    /\ a_net = NoNet
    /\ a_ret = NoResult
    /\ a_nreq = 0

\* the function is entered: url, payload and headers are built
ApiCall ==
    /\ a_pc \in {"ready", "done"}
    /\ \E fn \in ApiFunctions : a_fn' = fn
    /\ a_pc' = "request"
    /\ a_net' = NoNet
    /\ a_ret' = NoResult
    /\ a_nreq' = 0
    /\ UNCHANGED <<dbvars, pvars, cvars, nvars, uvars, yvars>>

\* requests.get / put / post sends the request
ApiRequest ==
    /\ a_pc = "request"
    /\ a_nreq' = a_nreq + 1
    /\ a_pc' = "waiting"
    /\ UNCHANGED <<a_fn, a_net, a_ret, dbvars, pvars, cvars, nvars, uvars, yvars>>

\* the response arrives or requests raises; the function runs to its end
ApiRespond ==
    /\ a_pc = "waiting"
    /\ \E net \in NetOutcomes, json_is_request_error \in BOOLEAN :
           /\ a_net' = net
           /\ a_ret' = ApiResult(a_fn, net, json_is_request_error)
    /\ a_pc' = "done"
    /\ UNCHANGED <<a_fn, a_nreq, dbvars, pvars, cvars, nvars, uvars, yvars>>

NextApi ==
    \/ ApiCall
    \/ ApiRequest
    \/ ApiRespond

InitApi == InitDB /\ PureIdle /\ CsvIdle /\ NormalizeIdle /\ UiIdle /\ ApiStart /\ RestIdle

SpecApi == InitApi /\ [][NextApi]_vars

(***************************************************************************)
(* A user submits the forms of the screens, one submission after another.  *)
(* Each submission runs the screen's script once from its start; the       *)
(* network's answers to its requests are chosen from UiNets.               *)
(***************************************************************************)
UiNets ==
    { RequestError("ConnectionError"), Response(200, "addresses"),
      Response(200, "addresses_noid"), Response(201, "addresses"),
      Response(404, "message"), Response(200, "html") }

UiStart ==
    /\ u_pc = "form"
    /\ u_form = "none"
    /\ u_type = "none"
    /\ u_filled = {}
    /\ u_nreq = 0
    /\ u_msgs = <<>>
    /\ u_exc = "none"

Shown(form, transfer_type, filled, outcome) ==
    /\ u_pc' = "submitted"
    /\ u_form' = form
    /\ u_type' = transfer_type
    /\ u_filled' = filled
    /\ u_nreq' = outcome.nreq
    /\ u_msgs' = outcome.msgs
    /\ u_exc' = outcome.exc
    /\ UNCHANGED <<dbvars, pvars, cvars, nvars, avars, yvars>>

\* show_fee_modification_screen with "Update developer fee" pressed
SubmitFeeModification ==
    /\ u_pc \in {"form", "submitted"}
    /\ \E filled \in SUBSET FeeRequired, net1 \in UiNets, net2 \in UiNets, net3 \in UiNets,
          log_saved \in BOOLEAN :
           LET col1 == FeeColumn1(filled, net1, net2, log_saved)
               col2 == FeeColumn2(net3)
           IN  Shown("fee_modification", "none", filled,
                     Outcome(col1.nreq + col2.nreq, col1.msgs \o col2.msgs, "none"))

\* show_virtual_account_screen with "Crear virtual account" pressed
SubmitCreateAccount ==
    /\ u_pc \in {"form", "submitted"}
    /\ \E filled \in SUBSET AccountRequired, net \in UiNets :
           Shown("create_virtual_account", "none", filled, CreateAccountHandler(filled, net))

\* show_virtual_account_screen with "Download client accounts" pressed
SubmitClientAccounts ==
    /\ u_pc \in {"form", "submitted"}
    /\ \E filled \in SUBSET AccountRequired, net \in UiNets :
           Shown("client_accounts", "none", filled, ClientAccountsHandler(filled, net))

\* show_transfer_screen with "Enviar Transferencia" pressed
SubmitTransfer ==
    /\ u_pc \in {"form", "submitted"}
    /\ \E transfer_type \in TransferTypes, net \in UiNets,
          json_is_request_error \in BOOLEAN, log_saved \in BOOLEAN :
           \E filled \in SUBSET ({"api_key", "amount"} \cup Range(TypeFields(transfer_type))) :
               Shown("transfer", transfer_type, filled,
                     TransferHandler(transfer_type, filled, net, json_is_request_error,
                                     log_saved))

\* one run of generate_wire_transfer_pdf(transfer_id, api_key)
GenerateWireTransferPdf ==
    /\ u_pc \in {"form", "submitted"}
    /\ \E net1 \in UiNets \cup {Response(200, "transfer")}, net2 \in UiNets :
           Shown("generate_wire_transfer_pdf", "none", {"transfer_id", "api_key"},
                 generate_wire_transfer_pdf(net1, net2))

(***************************************************************************)
(* Two calls of create_virtual_accounts, one after the other (SpecKeys).  *)
(***************************************************************************)
CreateVirtualAccounts ==
    k_prev = NoCall /\
    \E customer_id \in CustomerIds, address \in Addresses,
       source_currency \in SourceCurrencies, destination_currency \in DestinationCurrencies,
       payment_rail \in PaymentRails, o \in OtherInputs :
        /\ k_prev' = k_last
        /\ k_last' =
               [args |-> [customer_id |-> customer_id, api_key |-> o.api_key] @@
                         create_virtual_accounts_payload(
                             customer_id, source_currency, destination_currency, payment_rail,
                             address, o.blockchain_memo, o.bridge_wallet_id,
                             o.developer_fee_percent, o.api_key),
                headers |-> create_virtual_accounts_headers(
                             customer_id, source_currency, destination_currency, payment_rail,
                             address, o.blockchain_memo, o.bridge_wallet_id,
                             o.developer_fee_percent, o.api_key)]
        /\ UNCHANGED <<dbvars, pvars, cvars, nvars, avars, uvars, svars, gvars, lvars>>

NextKeys == CreateVirtualAccounts

SpecKeys == Init /\ [][NextKeys]_vars

(***************************************************************************)
(* Runs of the application (SpecNav).  A user's choice in a widget that    *)
(* has a key is in the session state when the script runs again; the state *)
(* of a widget that a run does not render is dropped.                      *)
(***************************************************************************)
RunMain(session) ==
    LET run == main(session)
    IN  /\ s_session' = run.session
        /\ s_prev' = s_shown
        /\ s_shown' = run.pantalla
        /\ s_cleared' = run.cleared
        /\ s_widgets' = IF run.pantalla = s_shown THEN s_widgets ELSE {}
        /\ UNCHANGED <<dbvars, pvars, cvars, nvars, avars, uvars, kvars, gvars, lvars>>

\* the first run of a session
FirstRun ==
    /\ s_shown = "none"
    /\ RunMain(s_session)

\* the user picks another screen in the sidebar
SelectScreen ==
    /\ s_shown # "none"
    /\ \E i \in DOMAIN Screens :
           /\ Screens[i] # s_session["pantalla"]
           /\ RunMain(SetKey(s_session, "pantalla", Screens[i]))

\* the user types into a text input of the shown screen
FillInput ==
    /\ s_shown # "none"
    /\ \E f \in ScreenInputs(s_shown) \ s_widgets :
           /\ s_widgets' = s_widgets \cup {f}
           /\ UNCHANGED <<s_session, s_prev, s_shown, s_cleared>>
    /\ UNCHANGED <<dbvars, pvars, cvars, nvars, avars, uvars, kvars, gvars, lvars>>

\* the user submits the form of the shown screen: main runs again
SubmitForm ==
    /\ s_shown # "none"
    /\ ScreenInputs(s_shown) # {}
    /\ RunMain(s_session)

NextNav ==
    \/ FirstRun
    \/ SelectScreen
    \/ FillInput
    \/ SubmitForm

SpecNav == Init /\ [][NextNav]_vars

(***************************************************************************)
(* Runs of create_table (TransferTableCreation.py), create_users_table     *)
(* (CustomerTableCreation.py) and main (InsertCustomerData.py), one after  *)
(* another (SpecScripts).  Reading a local that was never assigned raises  *)
(* UnboundLocalError; connection.close() discards an open transaction.     *)
(***************************************************************************)
Scripts == {"create_table", "create_users_table", "main"}

TableOf(fn) == IF fn = "create_table" THEN "bridge_transfers" ELSE "users"

OthersUnchanged == UNCHANGED <<dbvars, pvars, cvars, nvars, avars, uvars, kvars, svars, lvars>>

\* the function is entered; only create_users_table sets conn = None and
\* cursor = None before its try
EnterScript ==
    /\ g_pc \in {"idle", "done"}
    /\ \E fn \in Scripts :
           /\ g_fn' = fn
           /\ g_conn' = (IF fn = "create_users_table" THEN "None" ELSE "unbound")
           /\ g_cursor' = (IF fn = "create_users_table" THEN "None" ELSE "unbound")
    /\ g_pc' = "connect"
    /\ g_tx' = "idle"
    /\ g_exc' = "none"
    /\ UNCHANGED <<g_tables, g_inserted>>
    /\ OthersUnchanged

\* conn = psycopg2.connect(DATABASE_URL) and, in the two table scripts,
\* cursor = conn.cursor()
Connect ==
    /\ g_pc = "connect"
    /\ g_conn' = "open"
    /\ g_cursor' = (IF g_fn = "main" THEN g_cursor ELSE "open")
    /\ g_pc' = (IF g_fn = "main" THEN "insert_user" ELSE "execute")
    /\ UNCHANGED <<g_fn, g_tx, g_exc, g_tables, g_inserted>>
    /\ OthersUnchanged

\* psycopg2.connect raises: conn is not assigned
ConnectRaises ==
    /\ g_pc = "connect"
    /\ g_pc' = "except"
    /\ UNCHANGED <<g_fn, g_conn, g_cursor, g_tx, g_exc, g_tables, g_inserted>>
    /\ OthersUnchanged

\* cursor.execute(CREATE TABLE ...) succeeds (the table does not exist yet),
\* then conn.commit()
CreateAndCommit ==
    /\ g_pc = "execute"
    /\ TableOf(g_fn) \notin g_tables
    /\ g_tables' = g_tables \cup {TableOf(g_fn)}
    /\ g_tx' = "idle"
    /\ g_pc' = (IF g_fn = "create_table" THEN "verify" ELSE "finally")
    /\ UNCHANGED <<g_fn, g_conn, g_cursor, g_exc, g_inserted>>
    /\ OthersUnchanged

\* cursor.execute raises (the table exists, or the server fails)
ExecuteRaises ==
    /\ g_pc \in {"execute", "verify"}
    /\ g_tx' = "inerror"
    /\ g_pc' = "except"
    /\ UNCHANGED <<g_fn, g_conn, g_cursor, g_exc, g_tables, g_inserted>>
    /\ OthersUnchanged

\* create_table lines 111-121: the SELECT on information_schema and the
\* print of its rows; the SELECT begins a transaction
Verify ==
    /\ g_pc = "verify"
    /\ g_tx' = "intrans"
    /\ g_pc' = "finally"
    /\ UNCHANGED <<g_fn, g_conn, g_cursor, g_exc, g_tables, g_inserted>>
    /\ OthersUnchanged

\* main line 181: insert_user(conn, user_data) commits its INSERT, or rolls
\* back and returns False when the INSERT fails
InsertUser ==
    /\ g_pc = "insert_user"
    /\ \E accepted \in BOOLEAN :
           /\ accepted => "users" \in g_tables
           /\ g_inserted' = (g_inserted \/ accepted)
    /\ g_tx' = "idle"
    /\ g_pc' = "finally"
    /\ UNCHANGED <<g_fn, g_conn, g_cursor, g_exc, g_tables>>
    /\ OthersUnchanged

\* the except clause: create_table tests `if conn:` and rolls back;
\* create_users_table and main only print
Except ==
    /\ g_pc = "except"
    /\ IF g_fn = "create_table"
       THEN IF g_conn = "unbound"
            THEN g_exc' = "UnboundLocalError" /\ g_tx' = g_tx
            ELSE g_exc' = g_exc /\ g_tx' = "idle"
       ELSE g_exc' = g_exc /\ g_tx' = g_tx
    /\ g_pc' = "finally"
    /\ UNCHANGED <<g_fn, g_conn, g_cursor, g_tables, g_inserted>>
    /\ OthersUnchanged

\* the finally clause: the table scripts test `if cursor:` and `if conn:`,
\* main tests 'conn' in locals()
Finally ==
    /\ g_pc = "finally"
    /\ IF g_fn # "main" /\ g_cursor = "unbound"
       THEN /\ g_exc' = "UnboundLocalError"
            /\ UNCHANGED <<g_conn, g_cursor, g_tx>>
       ELSE /\ g_cursor' = (IF g_cursor = "open" THEN "closed" ELSE g_cursor)
            /\ g_conn' = (IF g_conn = "open" THEN "closed" ELSE g_conn)
            /\ g_tx' = "idle"
            /\ g_exc' = g_exc
    /\ g_pc' = "done"
    /\ UNCHANGED <<g_fn, g_tables, g_inserted>>
    /\ OthersUnchanged

NextScripts ==
    \/ EnterScript
    \/ Connect
    \/ ConnectRaises
    \/ CreateAndCommit
    \/ ExecuteRaises
    \/ Verify
    \/ InsertUser
    \/ Except
    \/ Finally

SpecScripts == Init /\ [][NextScripts]_vars

(***************************************************************************)
(* Calls of save_fee_log and get_fee_logs on one file that is missing at   *)
(* first, one after another (SpecFeeLog).                                  *)
(***************************************************************************)
FeeLogOthers == UNCHANGED <<dbvars, pvars, cvars, nvars, avars, uvars, kvars, svars, gvars>>

\* save_fee_log returns True
SaveFeeLog ==
    /\ l_clock < MaxSaves
    /\ \E args \in FeeLogArgs :
           LET entry == log_entry(<<"T" \o ToString(l_clock + 1)>>, <<"cust1">>, <<"0xabc">>,
                                  args[1], args[2], args[3])
           IN  /\ l_file' = to_csv(l_exists, l_file, entry)
               /\ l_calls' = Append(l_calls, entry)
    /\ l_exists' = TRUE
    /\ l_clock' = l_clock + 1
    /\ l_op' = "save_fee_log"
    /\ l_ret' = TRUE
    /\ UNCHANGED <<l_allok, l_limit>>
    /\ FeeLogOthers

\* to_csv raises and save_fee_log returns False: nothing was written, or
\* the file was created and left empty
SaveFeeLogRaises ==
    /\ l_clock < MaxSaves
    /\ \E created \in BOOLEAN : l_exists' = (l_exists \/ created)
    /\ l_clock' = l_clock + 1
    /\ l_allok' = FALSE
    /\ l_op' = "save_fee_log"
    /\ l_ret' = FALSE
    /\ UNCHANGED <<l_file, l_calls, l_limit>>
    /\ FeeLogOthers

GetFeeLogs ==
    /\ \E limit \in 0..MaxLimit :
           /\ l_limit' = limit
           /\ l_ret' = get_fee_logs(l_exists, l_file, limit)
    /\ l_op' = "get_fee_logs"
    /\ UNCHANGED <<l_exists, l_file, l_calls, l_allok, l_clock>>
    /\ FeeLogOthers

NextFeeLog ==
    \/ SaveFeeLog
    \/ SaveFeeLogRaises
    \/ GetFeeLogs

SpecFeeLog == Init /\ [][NextFeeLog]_vars

NextUi ==
    \/ SubmitFeeModification
    \/ SubmitCreateAccount
    \/ SubmitClientAccounts
    \/ SubmitTransfer
    \/ GenerateWireTransferPdf

InitUi == InitDB /\ PureIdle /\ CsvIdle /\ NormalizeIdle /\ ApiIdle /\ UiStart /\ RestIdle

SpecUi == InitUi /\ [][NextUi]_vars

\* a caller enters function fn with record rec
Enter(c, fn, rec) ==
    /\ pc[c] = "idle"
    /\ ncalls < (IF fn = "upsert_bridge_transfer" THEN MaxTransferCalls ELSE MaxUserCalls)
    /\ ncalls' = ncalls + 1
    /\ call' = [call EXCEPT ![c] = [fn |-> fn, rec |-> rec]]
    /\ prev' = [prev EXCEPT ![c] = [fn |-> call[c].fn, rec |-> call[c].rec, ret |-> ret[c]]]
    /\ nexec' = [nexec EXCEPT ![c] = 0]
    /\ exists' = [exists EXCEPT ![c] = "none"]

\* the call returns or raises: outcome is "True", "False", "ValueError", "DbError"
Leave(c, outcome) ==
    /\ pc' = [pc EXCEPT ![c] = "idle"]
    /\ ret' = [ret EXCEPT ![c] = outcome]

Goto(c, label) ==
    /\ pc' = [pc EXCEPT ![c] = label]
    /\ ret' = [ret EXCEPT ![c] = "running"]

\* LockedByOther with row locks only, as if bridge_transfers had no unique index
RowLocksOnly(c, table, id, idx) ==
    \E d \in Conns \ {c} :
        /\ pending[d] # <<>>
        /\ pending[d][1].table = table
        /\ pending[d][1].idx \cap idx # {}

\* the statement of c has to wait for another connection's open transaction:
\* one that updated a row it updates, or that inserted the id into the unique
\* index of bridge_transfers (id TEXT PRIMARY KEY; users has no index)
LockedByOther(c, table, id, idx) ==
    \E d \in Conns \ {c} :
        /\ pending[d] # <<>>
        /\ pending[d][1].table = table
        /\ \/ pending[d][1].idx \cap idx # {}
           \/ /\ table = "bridge_transfers"
              /\ pending[d][1].kind = "insert"
              /\ pending[d][1].row["id"] = id

(***************************************************************************)
(* upsert_bridge_transfer(conn, transfer_json)                             *)
(***************************************************************************)
\* lines 125-149: flatten, normalize, map, the id check, the statement
upsert_bridge_transfer(c, transfer_json) ==
    /\ Enter(c, "upsert_bridge_transfer", transfer_json)
    /\ LET flat == _flatten(transfer_json, <<>>, sep)
           norm == _normalize(flat)
           m == TransferColumns(norm)
       IN  /\ stmt' = [stmt EXCEPT ![c] = [cols |-> m.cols, vals |-> m.vals, id |-> NoneVal]]
           /\ IF <<"id">> \notin KeysOf(transfer_json)
              THEN Leave(c, "ValueError")
              ELSE Goto(c, "ubt_execute")
    /\ UNCHANGED <<bridge_transfers, users, tx, pending, upserted, pvars, xvars>>

\* set_list: the mapped columns except id
SetList(cols) == Range(cols) \ {"id"}

\* PostgreSQL rejects the INSERT ... ON CONFLICT statement
UpsertRejected(c) ==
    \/ tx[c] = "inerror"                     \* current transaction is aborted
    \/ stmt[c].cols = <<>>                   \* INSERT INTO bridge_transfers () : syntax error
    \/ SetList(stmt[c].cols) = {}            \* DO UPDATE SET followed by nothing: syntax error
    \/ HasCastError(stmt[c].cols, stmt[c].vals)
    \/ ~(TransferNotNull \subseteq DOMAIN ProposedRow(stmt[c].cols, stmt[c].vals))

\* line 152, cur.execute raises: the exception leaves the function (no except)
ubt_execute_raises(c) ==
    /\ pc[c] = "ubt_execute"
    /\ UpsertRejected(c)
    /\ nexec' = [nexec EXCEPT ![c] = @ + 1]
    /\ tx' = [tx EXCEPT ![c] = "inerror"]
    /\ pending' = [pending EXCEPT ![c] = <<>>]
    /\ Leave(c, "DbError")
    /\ UNCHANGED <<bridge_transfers, users, call, stmt, exists, prev, ncalls, upserted, pvars, xvars>>

\* line 152, cur.execute succeeds (after waiting for a concurrent writer of the id)
ubt_execute(c) ==
    /\ pc[c] = "ubt_execute"
    /\ ~UpsertRejected(c)
    /\ LET row == ProposedRow(stmt[c].cols, stmt[c].vals)
           write == OnConflictDoUpdate(bridge_transfers, row, SetList(stmt[c].cols))
       IN  /\ ~LockedByOther(c, "bridge_transfers", row["id"], write.idx)
           /\ pending' = [pending EXCEPT ![c] = <<write>>]
    /\ nexec' = [nexec EXCEPT ![c] = @ + 1]
    /\ tx' = [tx EXCEPT ![c] = "intrans"]
    /\ Goto(c, "ubt_commit")
    /\ UNCHANGED <<bridge_transfers, users, call, stmt, exists, prev, ncalls, upserted, pvars, xvars>>

\* lines 153-154: conn.commit(); return (1, len(cols))
ubt_commit(c) ==
    /\ pc[c] = "ubt_commit"
    /\ bridge_transfers' = Committed(bridge_transfers, pending[c][1])
    /\ upserted' = upserted \cup {pending[c][1].row["id"]}
    /\ pending' = [pending EXCEPT ![c] = <<>>]
    /\ tx' = [tx EXCEPT ![c] = "idle"]
    /\ Leave(c, "True")
    /\ UNCHANGED <<users, call, stmt, exists, prev, ncalls, nexec, pvars, xvars>>

(***************************************************************************)
(* insert_user, update_user, upsert_user (InsertCustomerData.py)           *)
(***************************************************************************)
\* flat_data.get('id')
GetId(flat_data) == IF <<"id">> \in DOMAIN flat_data THEN flat_data[<<"id">>] ELSE NoneVal

\* `not user_id`: None, "" and [] are falsy
Falsy(v) == v.t = "null" \/ (v.t \in {"str", "list"} /\ v.v = <<>>)

\* insert_user lines 24-60, up to cursor.execute
InsertUserBuild(c, user_json) ==
    LET flat_data == _flatten_json(user_json, <<>>, sep)
        m == InsertColumns(flat_data)
    IN  /\ stmt' = [stmt EXCEPT ![c] =
               [cols |-> m.cols, vals |-> m.vals, id |-> GetId(flat_data)]]
        /\ IF m.cols = <<>>
           THEN Leave(c, "False")              \* "No valid columns found in JSON"
           ELSE Goto(c, "iu_execute")

\* update_user lines 107-143, up to cursor.execute
UpdateUserBuild(c, user_json) ==
    LET flat_data == _flatten_json(user_json, <<>>, sep)
        m == UpdateColumns(flat_data)
    IN  /\ stmt' = [stmt EXCEPT ![c] =
               [cols |-> m.cols, vals |-> m.vals, id |-> GetId(flat_data)]]
        /\ IF m.cols = <<>>
           THEN Leave(c, "False")              \* "No valid columns to update"
           ELSE Goto(c, "uu_execute")

insert_user(c, user_json) ==
    /\ Enter(c, "insert_user", user_json)
    /\ InsertUserBuild(c, user_json)
    /\ UNCHANGED <<bridge_transfers, users, tx, pending, upserted, pvars, xvars>>

update_user(c, user_json) ==
    /\ Enter(c, "update_user", user_json)
    /\ UpdateUserBuild(c, user_json)
    /\ UNCHANGED <<bridge_transfers, users, tx, pending, upserted, pvars, xvars>>

\* upsert_user lines 79-85: flatten and the id check
upsert_user(c, user_json) ==
    /\ Enter(c, "upsert_user", user_json)
    /\ LET flat_data == _flatten_json(user_json, <<>>, sep)
           user_id == GetId(flat_data)
       IN  /\ stmt' = [stmt EXCEPT ![c] = [cols |-> <<>>, vals |-> <<>>, id |-> user_id]]
           /\ IF Falsy(user_id)
              THEN Leave(c, "False")           \* "User ID is required for upsert"
              ELSE Goto(c, "us_select")
    /\ UNCHANGED <<bridge_transfers, users, tx, pending, upserted, pvars, xvars>>

\* PostgreSQL rejects SELECT id FROM users WHERE id = %s
SelectRejected(c) == tx[c] = "inerror" \/ stmt[c].id.t # "str"

\* line 89, cursor.execute raises: caught at line 99, return False (no rollback)
us_select_raises(c) ==
    /\ pc[c] = "us_select"
    /\ SelectRejected(c)
    /\ nexec' = [nexec EXCEPT ![c] = @ + 1]
    /\ tx' = [tx EXCEPT ![c] = "inerror"]
    /\ Leave(c, "False")
    /\ UNCHANGED <<bridge_transfers, users, pending, call, stmt, exists, prev, ncalls,
                   upserted, pvars, xvars>>

\* us_select with the SELECT never finding the row
us_select_finds_nothing(c) ==
    /\ pc[c] = "us_select"
    /\ ~SelectRejected(c)
    /\ nexec' = [nexec EXCEPT ![c] = @ + 1]
    /\ tx' = [tx EXCEPT ![c] = "intrans"]
    /\ exists' = [exists EXCEPT ![c] = "None"]
    /\ InsertUserBuild(c, call[c].rec)
    /\ UNCHANGED <<bridge_transfers, users, pending, call, prev, ncalls, upserted, pvars, xvars>>

\* lines 88-97: the SELECT sees the committed rows; then the branch, which
\* runs update_user or insert_user up to its cursor.execute
us_select(c) ==
    /\ pc[c] = "us_select"
    /\ ~SelectRejected(c)
    /\ nexec' = [nexec EXCEPT ![c] = @ + 1]
    /\ tx' = [tx EXCEPT ![c] = "intrans"]
    /\ IF RowsWithId(users, stmt[c].id) # {}
       THEN /\ exists' = [exists EXCEPT ![c] = "row"]
            /\ UpdateUserBuild(c, call[c].rec)
       ELSE /\ exists' = [exists EXCEPT ![c] = "None"]
            /\ InsertUserBuild(c, call[c].rec)
    /\ UNCHANGED <<bridge_transfers, users, pending, call, prev, ncalls, upserted, pvars, xvars>>

\* PostgreSQL rejects the INSERT INTO users / UPDATE users statement
UsersRejected(c) == tx[c] = "inerror" \/ HasCastError(stmt[c].cols, stmt[c].vals)

\* iu_execute_raises without the conn.rollback() of line 72
iu_execute_raises_no_rollback(c) ==
    /\ pc[c] = "iu_execute"
    /\ UsersRejected(c)
    /\ nexec' = [nexec EXCEPT ![c] = @ + 1]
    /\ tx' = [tx EXCEPT ![c] = "inerror"]
    /\ pending' = [pending EXCEPT ![c] = <<>>]
    /\ Leave(c, "False")
    /\ UNCHANGED <<bridge_transfers, users, call, stmt, exists, prev, ncalls, upserted, pvars, xvars>>

\* insert_user line 64 raises: lines 70-73, rollback and return False
iu_execute_raises(c) ==
    /\ pc[c] = "iu_execute"
    /\ UsersRejected(c)
    /\ nexec' = [nexec EXCEPT ![c] = @ + 1]
    /\ tx' = [tx EXCEPT ![c] = "idle"]
    /\ pending' = [pending EXCEPT ![c] = <<>>]
    /\ Leave(c, "False")
    /\ UNCHANGED <<bridge_transfers, users, call, stmt, exists, prev, ncalls, upserted, pvars, xvars>>

\* insert_user line 64: the INSERT (users has no unique index: nothing to wait for)
iu_execute(c) ==
    /\ pc[c] = "iu_execute"
    /\ ~UsersRejected(c)
    /\ nexec' = [nexec EXCEPT ![c] = @ + 1]
    /\ tx' = [tx EXCEPT ![c] = "intrans"]
    /\ pending' = [pending EXCEPT ![c] =
           << [table |-> "users", kind |-> "insert",
               row |-> ProposedRow(stmt[c].cols, stmt[c].vals),
               setcols |-> {}, idx |-> {}] >>]
    /\ Goto(c, "iu_commit")
    /\ UNCHANGED <<bridge_transfers, users, call, stmt, exists, prev, ncalls, upserted, pvars, xvars>>

\* insert_user lines 66-68: commit, return True
iu_commit(c) ==
    /\ pc[c] = "iu_commit"
    /\ users' = Committed(users, pending[c][1])
    /\ pending' = [pending EXCEPT ![c] = <<>>]
    /\ tx' = [tx EXCEPT ![c] = "idle"]
    /\ Leave(c, "True")
    /\ UNCHANGED <<bridge_transfers, call, stmt, exists, prev, ncalls, nexec, upserted, pvars, xvars>>

\* update_user line 147 raises: lines 153-156, rollback and return False
uu_execute_raises(c) ==
    /\ pc[c] = "uu_execute"
    /\ UsersRejected(c)
    /\ nexec' = [nexec EXCEPT ![c] = @ + 1]
    /\ tx' = [tx EXCEPT ![c] = "idle"]
    /\ pending' = [pending EXCEPT ![c] = <<>>]
    /\ Leave(c, "False")
    /\ UNCHANGED <<bridge_transfers, users, call, stmt, exists, prev, ncalls, upserted, pvars, xvars>>

\* update_user line 147: the UPDATE locks the committed rows with the id
uu_execute(c) ==
    /\ pc[c] = "uu_execute"
    /\ ~UsersRejected(c)
    /\ LET idx == RowsWithId(users, stmt[c].id)
       IN  /\ ~LockedByOther(c, "users", stmt[c].id, idx)
           /\ pending' = [pending EXCEPT ![c] =
                  << [table |-> "users", kind |-> "update",
                      row |-> ProposedRow(stmt[c].cols, stmt[c].vals),
                      setcols |-> Range(stmt[c].cols), idx |-> idx] >>]
    /\ nexec' = [nexec EXCEPT ![c] = @ + 1]
    /\ tx' = [tx EXCEPT ![c] = "intrans"]
    /\ Goto(c, "uu_commit")
    /\ UNCHANGED <<bridge_transfers, users, call, stmt, exists, prev, ncalls, upserted, pvars, xvars>>

\* update_user lines 149-151: commit, return True
uu_commit(c) ==
    /\ pc[c] = "uu_commit"
    /\ users' = Committed(users, pending[c][1])
    /\ pending' = [pending EXCEPT ![c] = <<>>]
    /\ tx' = [tx EXCEPT ![c] = "idle"]
    /\ Leave(c, "True")
    /\ UNCHANGED <<bridge_transfers, call, stmt, exists, prev, ncalls, nexec, upserted, pvars, xvars>>

(***************************************************************************)
(* The records the callers pass.                                           *)
(***************************************************************************)
Item(k, v) == <<k, v>>
Stamp == Str(<<"2024-01-01", "T", "00:00:00", "Z">>)
Stamp2 == Str(<<"2024-01-02", "T", "00:00:00", "Z">>)

TransferRecords == {
    \* complete records of transfer t1 (two versions) and of t2
    << Item(<<"id">>, Str(<<"t1">>)), Item(<<"state">>, Str(<<"pending">>)),
       Item(created_at, Stamp), Item(updated_at, Stamp) >>,
    << Item(<<"id">>, Str(<<"t1">>)), Item(<<"state">>, Str(<<"completed">>)),
       Item(<<"source">>, Dict(<< Item(<<"currency">>, Str(<<"usd">>)) >>)),
       Item(created_at, Stamp), Item(updated_at, Stamp2) >>,
    << Item(<<"id">>, Str(<<"t2">>)), Item(<<"state">>, Str(<<"pending">>)),
       Item(created_at, Stamp), Item(updated_at, Stamp) >>,
    \* no id
    << Item(<<"state">>, Str(<<"pending">>)), Item(created_at, Stamp),
       Item(updated_at, Stamp) >>,
    \* an id and nothing else
    << Item(<<"id">>, Str(<<"t1">>)) >>,
    \* an id whose value is a mapping
    << Item(<<"id">>, Dict(<< Item(<<"value">>, Str(<<"t1">>)) >>)) >>,
    \* a later, sparser record of t1
    << Item(<<"id">>, Str(<<"t1">>)), Item(<<"state">>, Str(<<"completed">>)) >> }

UserJohn ==
    << Item(<<"id">>, Str(<<"u1">>)), Item(<<"first", "_", "name">>, Str(<<"John">>)),
       Item(<<"capabilities">>,
            Dict(<< Item(<<"payin", "_", "crypto">>, Str(<<"enabled">>)) >>)) >>

UserJane ==
    << Item(<<"id">>, Str(<<"u1">>)), Item(<<"first", "_", "name">>, Str(<<"Jane">>)) >>

\* no key of the column mappings
UserUnmapped == << Item(<<"foo">>, Str(<<"bar">>)) >>

\* a timestamp PostgreSQL cannot read
UserBadStamp ==
    << Item(<<"id">>, Str(<<"u1">>)), Item(updated_at, Str(<<"yesterday">>)) >>

\* the records given to insert_user and update_user called on their own
DirectRecords == { UserJane, UserUnmapped, UserBadStamp }

\* the records given to upsert_user
UserRecords == {
    UserJohn, UserJane, UserUnmapped, UserBadStamp,
    \* no id
    << Item(<<"first", "_", "name">>, Str(<<"John">>)) >>,
    \* no id at the top level, one below the empty key
    << Item(<<>>, Dict(<< Item(<<"id">>, Str(<<"u1">>)) >>)) >>,
    \* an id that is a list
    << Item(<<"id">>, List(<<Str(<<"u1">>)>>)) >> }

NextTransfers ==
    \E c \in Conns :
        \/ \E rec \in TransferRecords : upsert_bridge_transfer(c, rec)
        \/ ubt_execute_raises(c)
        \/ ubt_execute(c)
        \/ ubt_commit(c)

NextUsers ==
    \E c \in Conns :
        \/ \E rec \in DirectRecords : insert_user(c, rec)
        \/ \E rec \in DirectRecords : update_user(c, rec)
        \/ \E rec \in UserRecords : upsert_user(c, rec)
        \/ us_select_raises(c)
        \/ us_select(c)
        \/ iu_execute_raises(c)
        \/ iu_execute(c)
        \/ iu_commit(c)
        \/ uu_execute_raises(c)
        \/ uu_execute(c)
        \/ uu_commit(c)

SpecTransfers == Init /\ [][NextTransfers]_vars

SpecUsers == Init /\ [][NextUsers]_vars

\* upsert_user calls one after another: a call begins only when no other
\* connection is inside a call
Alone(c) == \A d \in Conns \ {c} : pc[d] = "idle"

NextUpsertsInSequence ==
    \E c \in Conns :
        \/ \E rec \in UserRecords : Alone(c) /\ upsert_user(c, rec)
        \/ us_select_raises(c)
        \/ us_select(c)
        \/ iu_execute_raises(c)
        \/ iu_execute(c)
        \/ iu_commit(c)
        \/ uu_execute_raises(c)
        \/ uu_execute(c)
        \/ uu_commit(c)

SpecUpsertsInSequence == Init /\ [][NextUpsertsInSequence]_vars

(***************************************************************************)
(* Properties of the flatteners and of the column mapper (SpecFlat).       *)
(***************************************************************************)
\* the key the flatteners' recursion composes along path p
RECURSIVE CodeKey(_, _)
CodeKey(parent, p) ==
    IF p = <<>> THEN parent ELSE CodeKey(ComposeKey(parent, sep, p[1]), Tail(p))

\* the mapper's table and input in a mapped state
MapTable ==
    IF p_pc = "map_transfer" THEN KEY_TO_COL
    ELSE IF p_pc = "map_insert" THEN insert_column_mapping
    ELSE update_column_mapping

MapInput == IF p_pc = "map_transfer" THEN _normalize(p_flat) ELSE p_flat

Mapped == p_pc \in {"map_transfer", "map_insert", "map_update"}

\* C7: the emitted columns are exactly the destination names of the table's
\* keys that the mapper's input record has (none outside the table, none
\* dropped, none twice), and each column's value is the record's value of its
\* source key.
C7_MappingExact ==
    Mapped =>
        LET present == { i \in DOMAIN MapTable : MapTable[i][1] \in DOMAIN MapInput }
        IN  /\ Range(p_map.cols) = { MapTable[i][2] : i \in present }
            /\ Len(p_map.cols) = Cardinality(present)
            /\ Len(p_map.vals) = Len(p_map.cols)
            /\ \A j \in DOMAIN p_map.cols :
                   \E i \in present : /\ MapTable[i][2] = p_map.cols[j]
                                      /\ p_map.vals[j] = MapInput[MapTable[i][1]]

capabilities_payin_crypto == <<"capabilities", "_", "payin", "_", "crypto">>

\* C7 witness: {"id": .., "capabilities": {"payin_crypto": "enabled"}} went
\* through _flatten_json and insert_user's mapping and gave id, payin_crypto
C7_Witness ==
    /\ p_pc = "map_insert"
    /\ p_raw = << << <<"id">>, Str(<<"enabled">>) >>,
                  << <<"capabilities">>,
                     Dict(<< << <<"payin", "_", "crypto">>, Str(<<"enabled">>) >> >>) >> >>
    /\ p_flat[capabilities_payin_crypto] = Str(<<"enabled">>)
    /\ p_map.cols = <<"id", "payin_crypto">>
    /\ p_map.vals = <<Str(<<"enabled">>), Str(<<"enabled">>)>>

\* C9: the flattener's output has no mapping value; its keys are exactly the
\* compositions parent + separator + child of the raw record's paths to
\* values that are no mappings; and each value (a sequence included) is the
\* unchanged value at the end of such a path.
C9_FlatFullyExpanded ==
    p_fn \in {"_flatten", "_flatten_json"} =>
        /\ \A k \in DOMAIN p_flat : p_flat[k].t # "dict"
        /\ DOMAIN p_flat = { JoinPath(p) : p \in LeafPaths(p_raw) }
        /\ \A k \in DOMAIN p_flat :
               \E p \in LeafPaths(p_raw) : JoinPath(p) = k /\ ValueAt(p_raw, p) = p_flat[k]

\* C9 witness: a record with a mapping under the top-level empty-string key
\* was flattened, and the mapping's entry came out under its bare child key
C9_Witness ==
    /\ p_pc = "flat"
    /\ p_raw = << << <<>>, Dict(<< << <<"id">>, Str(<<"enabled">>) >> >>) >> >>
    /\ DOMAIN p_flat = { <<"id">> }

\* no key holds the separator, no nested mapping is empty, and no top-level
\* key is the empty string with a mapping as its value
WellKeyed(d) ==
    /\ \A k \in AllKeys(d) : \A i \in DOMAIN k : k[i] # "_"
    /\ ~HasEmptyDict(d)
    /\ \A i \in DOMAIN d : d[i][1] = <<>> => d[i][2].t # "dict"

\* no two paths compose to the same flattened key
NoCollision(d) ==
    \A p, q \in LeafPaths(d) : CodeKey(<<>>, p) = CodeKey(<<>>, q) => p = q

\* C10 as stated: without colliding paths, flatten then re-nest gives back
\* the original nested mapping.
C10_RoundTrip ==
    (p_pc = "renested" /\ NoCollision(p_raw)) => p_nested = AsMapping(p_raw)

\* C10 amended: without colliding paths, and when moreover no key holds the
\* separator, no nested mapping is empty and no top-level empty-string key
\* has a mapping as its value, flatten then re-nest gives back the original
\* nested mapping.
C10_RoundTripWellKeyed ==
    (p_pc = "renested" /\ NoCollision(p_raw) /\ WellKeyed(p_raw))
        => p_nested = AsMapping(p_raw)

\* C10 witness: a well-keyed record with a nested mapping made the round trip
C10_Witness ==
    /\ p_pc = "renested"
    /\ WellKeyed(p_raw)
    /\ \E i \in DOMAIN p_raw : p_raw[i][2].t = "dict"
    /\ Cardinality(DOMAIN p_flat) >= 2
    /\ p_nested = AsMapping(p_raw)

\* C11: flattening is idempotent: for each of the four flatteners, applying
\* it to its own result flatten(x) gives a mapping equal to flatten(x).
C11_FlattenIdempotent ==
    p_pc = "again" => p_again = p_flat

\* C11 witness: a record with a nested mapping and a list was flattened by
\* flatten_json, the result was flattened again, and the two are equal
C11_Witness ==
    /\ p_pc = "again"
    /\ p_fn = "flatten_json"
    /\ \E i, j \in DOMAIN p_raw : p_raw[i][2].t = "dict" /\ p_raw[j][2].t = "list"
    /\ Cardinality(DOMAIN p_flat) >= 3
    /\ p_again = p_flat

\* the paths of a value through mappings (by key) and lists (by position)
\* down to the values that are neither, as <<path, value>> pairs
RECURSIVE ExportPaths(_)
ExportPaths(v) ==
    IF v.t = "dict"
    THEN UNION { { << <<v.v[i][1]>> \o pl[1], pl[2] >> : pl \in ExportPaths(v.v[i][2]) } :
                 i \in DOMAIN v.v }
    ELSE IF v.t = "list"
    THEN UNION { { << <<IndexStr(i - 1)>> \o pl[1], pl[2] >> : pl \in ExportPaths(v.v[i]) } :
                 i \in DOMAIN v.v }
    ELSE { << <<>>, v >> }

\* parent + s + child along a path
RECURSIVE JoinWith(_, _)
JoinWith(p, s) == IF Len(p) = 1 THEN p[1] ELSE p[1] \o s \o JoinWith(Tail(p), s)

\* the separator the flattener that ran composes with
ExportSep == IF p_fn = "flatten_dict" THEN dot ELSE sep

\* C16: the record a CSV-export flattener (flatten_json, flatten_dict)
\* returns has no list and no mapping value; its keys are the compositions
\* of the raw record's paths through mappings and lists, a list element
\* entering with its position (k_0, k_1, ...); and each value is the value at
\* the end of such a path.
C16_ListsExpanded ==
    p_pc = "export" =>
        /\ \A k \in DOMAIN p_flat : p_flat[k].t \notin {"list", "dict"}
        /\ DOMAIN p_flat = { JoinWith(pl[1], ExportSep) : pl \in ExportPaths(Dict(p_raw)) }
        /\ \A k \in DOMAIN p_flat :
               \E pl \in ExportPaths(Dict(p_raw)) :
                   JoinWith(pl[1], ExportSep) = k /\ pl[2] = p_flat[k]

\* C16 witness: flatten_dict was given a list of a string and a mapping
\* under key id and returned one key whose value is the text of the list's
\* elements joined by a comma
C16_Witness ==
    /\ p_pc = "export"
    /\ p_fn = "flatten_dict"
    /\ p_raw = << << <<"id">>,
                     List(<<Str(<<"ach">>), Dict(<< << <<"id">>, Str(<<"enabled">>) >> >>)>>) >> >>
    /\ p_flat = (<<"id">> :> Str(<<"ach", ",", "{", "'", "id", "'", ":", " ",
                                     "'", "enabled", "'", "}">>))

(***************************************************************************)
(* Properties of _normalize (SpecNormalize).                               *)
(***************************************************************************)
\* C12: when the flat record has receipt_gas_fe and no receipt_gas_fee, the
\* normalized record has receipt_gas_fee with the value of receipt_gas_fe;
\* when the flat record has receipt_gas_fee, the normalized record has it
\* with the same value, whatever receipt_gas_fe is.
C12_GasFeeTypo ==
    n_pc = "done" =>
        /\ (receipt_gas_fe \in DOMAIN n_flat /\ receipt_gas_fee \notin DOMAIN n_flat)
               => /\ receipt_gas_fee \in DOMAIN n_norm
                  /\ n_norm[receipt_gas_fee] = n_flat[receipt_gas_fe]
        /\ receipt_gas_fee \in DOMAIN n_flat
               => /\ receipt_gas_fee \in DOMAIN n_norm
                  /\ n_norm[receipt_gas_fee] = n_flat[receipt_gas_fee]

\* C12 witness: both cases: the value was copied into the absent key / the
\* present key kept its own value next to a different receipt_gas_fe
C12_Witness ==
    /\ n_pc = "done"
    /\ receipt_gas_fe \in DOMAIN n_flat
    /\ receipt_gas_fee \in DOMAIN n_flat
    /\ n_flat[receipt_gas_fe] = Str(<<"0.1">>)
    /\ n_flat[receipt_gas_fee] = Str(<<"0.2">>)
    /\ n_norm[receipt_gas_fee] = Str(<<"0.2">>)

\* the string is a date, a T, a time of day and the letter Z
IsUtcStamp(s) ==
    Len(s) = 4 /\ s[1] \in Dates /\ s[2] = "T" /\ s[3] \in Times /\ s[4] = "Z"

\* C13: for created_at and updated_at, a string ending in Z is replaced by
\* the timezone-aware (UTC) datetime it denotes, and when it denotes none
\* (parsing fails) the normalized record holds the original string, Z
\* included.
C13_TimestampsNormalized ==
    n_pc = "done" =>
        \A tkey \in {created_at, updated_at} :
            (tkey \in DOMAIN n_flat /\ n_flat[tkey].t = "str" /\ endswithZ(n_flat[tkey].v))
                => IF IsUtcStamp(n_flat[tkey].v)
                   THEN n_norm[tkey] = DateTime(n_flat[tkey].v[1], n_flat[tkey].v[3], "+00:00")
                   ELSE \/ n_norm[tkey] = n_flat[tkey]
                        \/ /\ n_norm[tkey].t = "datetime"
                           /\ n_norm[tkey].v[3] = "+00:00"

\* C13 witness: created_at "2024-01-01Z" came out as the naive datetime
\* 2024-01-01 00:00:00, neither timezone-aware nor the original string
C13_Witness ==
    /\ n_pc = "done"
    /\ created_at \in DOMAIN n_flat
    /\ n_flat[created_at] = Str(<<"2024-01-01", "Z">>)
    /\ n_norm[created_at] = DateTime("2024-01-01", "00:00:00", "naive")

(***************************************************************************)
(* Properties of the API client (SpecApi) and of the screens (SpecUi).     *)
(***************************************************************************)
\* the API client functions the screens call
ScreenFunctions ==
    {"get_liquidation_address_id", "update_developer_fee", "update_static_transfer_fee",
     "create_virtual_accounts", "get_virtual_accounts", "create_transfer"}

\* a structured failure: None, a tuple whose success flag is False, or a
\* result mapping whose success is False
StructuredFailure(r) ==
    /\ r.kind = "return"
    /\ \/ r.val = NoneVal
       \/ r.val.t = "tuple" /\ r.val.v[3] = Bool(FALSE)
       \/ r.val.t = "dict" /\ HasKey(r.val.v, <<"success">>)
                           /\ Get(r.val.v, <<"success">>) = Bool(FALSE)

\* C17: when a connection failure or timeout met the request of an API
\* client function that a screen calls, the function has returned a
\* structured failure (None, or success false); it has not raised.
C17_TransportErrorsCaught ==
    (a_pc = "done" /\ a_fn \in ScreenFunctions /\ a_net.kind = "error")
        => StructuredFailure(a_ret)

\* C17 witness: create_virtual_accounts met a ConnectionError and raised it
C17_Witness ==
    /\ a_pc = "done"
    /\ a_fn = "create_virtual_accounts"
    /\ a_net = RequestError("ConnectionError")
    /\ a_ret = Raise("ConnectionError")

\* the result carries the response's status code and its raw body
CarriesResponse(r, net) ==
    /\ r.kind = "return"
    /\ \/ /\ r.val.t = "tuple"
          /\ r.val.v[1] = Num(net.status_code)
          /\ r.val.v[2] = Str(<<net.text>>)
       \/ /\ r.val.t = "dict"
          /\ HasKey(r.val.v, <<"status", "_", "code">>)
          /\ Get(r.val.v, <<"status", "_", "code">>) = Num(net.status_code)
          /\ HasKey(r.val.v, <<"data">>)
          /\ Get(r.val.v, <<"data">>) = ErrorData(net.text)

\* C18: a finished call of an API client function has sent exactly one HTTP
\* request, and when the response's status was not 2xx the function has
\* returned the status code together with the raw response body.
C18_ErrorsSurfaced ==
    a_pc = "done" =>
        /\ a_nreq = 1
        /\ (a_net.kind = "response" /\ a_net.status_code \notin 200..299)
               => CarriesResponse(a_ret, a_net)

\* C18 witness: get_liquidation_address_id got a 404 with a JSON message
\* body, sent one request, and returned None
C18_Witness ==
    /\ a_pc = "done"
    /\ a_fn = "get_liquidation_address_id"
    /\ a_net = Response(404, "message")
    /\ a_nreq = 1
    /\ a_ret = Return(NoneVal)

\* the inputs marked as required on the submitted form
RequiredInputs ==
    IF u_form = "fee_modification" THEN FeeRequired
    ELSE IF u_form = "generate_wire_transfer_pdf" THEN {"transfer_id", "api_key"}
    ELSE IF u_form = "transfer" THEN {"api_key", "amount"} \cup Range(TypeFields(u_type))
    ELSE AccountRequired

ErrorReported == \E i \in DOMAIN u_msgs : u_msgs[i].level = "error"

\* C20: after a form submission in which a required input was empty, no
\* HTTP request has been sent and an error has been shown; a submission that
\* sent a request had all required inputs filled.
C20_ValidationFirst ==
    u_pc = "submitted" =>
        /\ ~(RequiredInputs \subseteq u_filled) => (u_nreq = 0 /\ ErrorReported)
        /\ u_nreq > 0 => RequiredInputs \subseteq u_filled

\* C20 witness: the fee form submitted with every input empty showed the
\* empty-fields error and still sent one request
C20_Witness ==
    /\ u_pc = "submitted"
    /\ u_form = "fee_modification"
    /\ u_filled = {}
    /\ u_msgs = << Msg("error", "empty_fields") >>
    /\ u_nreq = 1

\* the five inputs the key is made of
KeyInputs == {"customer_id", "address", "source_currency", "destination_currency", "payment_rail"}

SameKeyInputs(a, b) == \A f \in KeyInputs : a.args[f] = b.args[f]

\* C23: every create_virtual_accounts call sends as Idempotency-Key the
\* concatenation customer_id + address + source_currency +
\* destination_currency + payment_rail of its own arguments, and two calls
\* that agree on these five inputs send the same key whatever their memo,
\* wallet id, fee percent and API key.
C23_KeyFromFiveInputs ==
    /\ \A k \in {k_prev, k_last} \ {NoCall} :
           k.headers.Idempotency_Key =
               k.args.customer_id \o k.args.address \o k.args.source_currency
               \o k.args.destination_currency \o k.args.payment_rail
    /\ (k_prev # NoCall /\ k_last # NoCall /\ SameKeyInputs(k_prev, k_last))
           => k_prev.headers.Idempotency_Key = k_last.headers.Idempotency_Key

\* C23 witness: two calls with the same five inputs and a different memo,
\* wallet id, fee percent and API key
C23_Witness ==
    /\ k_prev # NoCall /\ k_last # NoCall
    /\ SameKeyInputs(k_prev, k_last)
    /\ k_prev.args.address = <<"2">>
    /\ k_prev.args.blockchain_memo # k_last.args.blockchain_memo
    /\ k_prev.args.bridge_wallet_id # k_last.args.bridge_wallet_id
    /\ k_prev.args.developer_fee_percent # k_last.args.developer_fee_percent
    /\ k_prev.args.api_key # k_last.args.api_key

\* C28: two create_virtual_accounts calls that send the same Idempotency-Key
\* agree on customer id, address, source currency, destination currency and
\* payment rail.
C28_KeyInjective ==
    (k_prev # NoCall /\ k_last # NoCall
     /\ k_prev.headers.Idempotency_Key = k_last.headers.Idempotency_Key)
        => SameKeyInputs(k_prev, k_last)

\* C28 witness: customer c1 with address 2, then customer c12 with the
\* address left empty, sent the same key
C28_Witness ==
    /\ k_prev # NoCall /\ k_last # NoCall
    /\ k_prev.args.customer_id = <<"c", "1">> /\ k_prev.args.address = <<"2">>
    /\ k_last.args.customer_id = <<"c", "1", "2">> /\ k_last.args.address = <<>>
    /\ k_prev.headers.Idempotency_Key = k_last.headers.Idempotency_Key

\* C24: when the last run of main showed another screen than the run before
\* it, that run called limpiar_formularios, and the session state holds none
\* of the form keys.
C24_NavigationResets ==
    (s_prev # "none" /\ s_shown # s_prev) =>
        (s_cleared /\ DOMAIN s_session \cap FormKeys = {})

\* C24 witness: the run that showed the virtual-account screen after the
\* fee screen did not call limpiar_formularios
C24_Witness ==
    /\ s_prev = "Liquidation Address Fee"
    /\ s_shown = "Crear virtual account"
    /\ ~s_cleared
    /\ s_session["pantalla"] = "Crear virtual account"
    /\ s_widgets = {}

\* C22: when create_table, create_users_table or main has been left, no
\* exception has left it, its connection is not open any more, and no
\* transaction is open or aborted on it.
C22_Released ==
    g_pc = "done" => (g_exc = "none" /\ g_conn # "open" /\ g_tx = "idle")

\* C22 witness: create_table whose connect failed was left by the
\* UnboundLocalError of its own cleanup
C22_Witness ==
    /\ g_pc = "done"
    /\ g_fn = "create_table"
    /\ g_conn = "unbound"
    /\ g_exc = "UnboundLocalError"

\* one header row followed by one row per successful call, in call order
ExpectedRecords == <<LogColumns>> \o [i \in DOMAIN l_calls |-> Cells(l_calls[i])]

\* the last min(limit, n) of the n calls' rows, as a frame holds them
ExpectedRows(limit) ==
    LET all == Frame(LogColumns, Tail(ExpectedRecords)).rows
        n == Len(l_calls)
        k == IF limit < n THEN limit ELSE n
    IN  [i \in 1..k |-> all[n - k + i]]

\* C30: as long as every save_fee_log call has returned True, the file is
\* missing before the first call and afterwards consists of one header row
\* followed by one row per call in call order, and get_fee_logs(limit) has
\* returned the last min(limit, n) of these rows in that order.
C30_AppendOnlyLog ==
    l_allok =>
        /\ l_calls = <<>> => ~l_exists
        /\ l_calls # <<>> =>
               (l_exists /\ Records(l_file, 1) = ExpectedRecords)
        /\ (l_op = "get_fee_logs" /\ l_calls # <<>>) => l_ret.rows = ExpectedRows(l_limit)
        /\ (l_op = "get_fee_logs" /\ l_calls = <<>>) => l_ret = EmptyFrame

\* C30 witness: after one save whose response text holds a lone carriage
\* return, get_fee_logs(3) returned two rows
C30_Witness ==
    /\ l_allok
    /\ Len(l_calls) = 1
    /\ l_calls[1][6] = <<"a", CR, "b">>
    /\ l_op = "get_fee_logs"
    /\ l_limit = 3
    /\ Len(l_ret.rows) = 2
    /\ l_ret.rows[1][6].v = <<"a">>
    /\ l_ret.rows[2][1].v = <<"b">>
    /\ l_ret.rows[2][6] = NaN

\* the calls so far passed no text with a carriage return outside a line break
NoLoneCR == \A i \in DOMAIN l_calls : l_calls[i][6] # <<"a", CR, "b">>

\* the property of C30 for calls that passed no such text
AppendOnlyWithoutLoneCR == NoLoneCR => C30_AppendOnlyLog

\* C21: a screen action or script invocation that has finished sent at most
\* one HTTP request.
C21_OneRequest == u_pc = "submitted" => u_nreq <= 1

\* C21 witness: one submission of the fee form sent three requests (the
\* lookup, the update, and the second lookup of the right-hand column)
C21_Witness ==
    /\ u_pc = "submitted"
    /\ u_form = "fee_modification"
    /\ u_filled = FeeRequired
    /\ u_nreq = 3
    /\ \E i \in DOMAIN u_msgs : u_msgs[i] = Msg("success", "fee_updated")

(***************************************************************************)
(* Properties of the CSV exports (SpecCsv).                                *)
(***************************************************************************)
\* the flattener of the export that ran, on record r
ExportFlat(r) ==
    IF c_fn = "save_to_csv" THEN flatten_json(r, <<>>, sep)
    ELSE flatten_dict(r.v, <<>>, dot)

\* the export was handed c_list, all of its items mappings, in a response of
\* the shape it reads, and the file system took the write
ExportedList ==
    /\ c_pc = "done"
    /\ c_io
    /\ \A i \in DOMAIN c_list : c_list[i].t = "dict"
    /\ c_fn = "json_response_to_flat_csv_bytes" => HasKey(c_data.v, <<"data">>)

\* the file's header is the sorted union of the records' flattened field
\* names, there is one row per record, in order, and a row has the text of
\* each field the record has and the empty string for each it has not
CsvFormat ==
    /\ c_out.status = "written"
    /\ Range(c_out.header) = UNION { DOMAIN ExportFlat(c_list[i]) : i \in DOMAIN c_list }
    /\ \A i, j \in DOMAIN c_out.header : i < j => StrLess(c_out.header[i], c_out.header[j])
    /\ Len(c_out.rows) = Len(c_list)
    /\ \A i \in DOMAIN c_list :
           /\ DOMAIN c_out.rows[i] = Range(c_out.header)
           /\ \A f \in Range(c_out.header) :
                  c_out.rows[i][f] = IF f \in DOMAIN ExportFlat(c_list[i])
                                     THEN CellText(ExportFlat(c_list[i])[f])
                                     ELSE <<>>

\* C15 as stated: for every list of records, either export writes the
\* header, one row per record and empty strings for missing fields.
C15_CsvFormat == ExportedList => CsvFormat

\* C15 amended: the same for every list of records given to
\* json_response_to_flat_csv_bytes and for every non-empty list given to
\* save_to_csv (which writes no file for an empty list).
C15_CsvFormatNonEmpty ==
    (ExportedList /\ (c_fn = "save_to_csv" => c_list # <<>>)) => CsvFormat

\* C15 witness: save_to_csv wrote two records with different fields: the
\* header has the fields of both in order and each row has an empty cell
C15_Witness ==
    /\ ExportedList
    /\ c_fn = "save_to_csv"
    /\ Len(c_list) = 2
    /\ c_out.status = "written"
    /\ c_out.header = << <<"capabilities", "_", "payin", "_", "crypto">>, <<"id">>,
                         <<"note">>, <<"rails", "_", "0">>,
                         <<"rails", "_", "1", "_", "id">> >>
    /\ c_out.rows[1][<<"note">>] = <<>>
    /\ c_out.rows[2][<<"id">>] = <<>>

(***************************************************************************)
(* Properties of upsert_bridge_transfer (SpecTransfers) and of the users   *)
(* functions (SpecUsers).                                                  *)
(***************************************************************************)
\* the top-level id of a record that has one
RecordId(rec) == ItemValue(rec, <<"id">>)

\* c's current call and the one before are upsert_bridge_transfer with the same record
AppliedTwice(c) ==
    /\ call[c].fn = "upsert_bridge_transfer"
    /\ prev[c].fn = "upsert_bridge_transfer"
    /\ prev[c].rec = call[c].rec

\* row r holds, in every column of the statement, what PostgreSQL stores for
\* the statement's parameter (NULL: the column is absent from r)
HoldsWritten(r, cols, vals) ==
    \A j \in DOMAIN cols :
        LET v == PgCast(cols[j], vals[j])
        IN  IF v.t = "null" THEN cols[j] \notin DOMAIN r
            ELSE cols[j] \in DOMAIN r /\ r[cols[j]] = v

\* c's upsert_bridge_transfer returns in this step
UpsertReturns(c) == pc[c] = "ubt_commit" /\ pc'[c] = "idle"

\* C1 as stated: once upsert_bridge_transfer was applied twice in sequence to
\* the same record that contains an id, bridge_transfers has exactly one row
\* with that id.
C1_TwiceLeavesOneRow ==
    \A c \in Conns :
        (AppliedTwice(c) /\ pc[c] = "idle" /\ <<"id">> \in KeysOf(call[c].rec))
            => Cardinality(RowsWithId(bridge_transfers, RecordId(call[c].rec))) = 1

\* C1 amended: when the first application of a record returned, the second
\* application of the same record is accepted too, and when it returns
\* bridge_transfers has exactly one row with the record's id, that row holds
\* in every mapped column the value the second application wrote, and the
\* table is left as it was if the row held these values already.
C1_ReplayLeavesOneRow ==
    [][\A c \in Conns :
          (AppliedTwice(c) /\ prev[c].ret = "True") =>
              /\ pc[c] = "ubt_execute" => ~UpsertRejected(c)
              /\ UpsertReturns(c) =>
                    LET id == RecordId(call[c].rec)
                        hit == RowsWithId(bridge_transfers', id)
                        was == RowsWithId(bridge_transfers, id)
                    IN  /\ Cardinality(hit) = 1
                        /\ \A i \in hit :
                               HoldsWritten(bridge_transfers'[i], stmt[c].cols, stmt[c].vals)
                        /\ (was # {} /\ \A i \in was :
                               HoldsWritten(bridge_transfers[i], stmt[c].cols, stmt[c].vals))
                           => bridge_transfers' = bridge_transfers]_vars

\* C1 witness: a record was upserted twice in sequence, both calls returned,
\* and the table has one row with its id
C1_Witness ==
    \E c \in Conns :
        /\ AppliedTwice(c) /\ pc[c] = "idle"
        /\ prev[c].ret = "True" /\ ret[c] = "True"
        /\ Cardinality(RowsWithId(bridge_transfers, RecordId(call[c].rec))) = 1

\* the columns KEY_TO_COL gives for the keys of the normalized flat record of rec
MappedColumns(rec) ==
    LET keys == DOMAIN _normalize(_flatten(rec, <<>>, sep))
    IN  { KEY_TO_COL[i][2] : i \in { j \in DOMAIN KEY_TO_COL : KEY_TO_COL[j][1] \in keys } }

\* C14: the statement of upsert_bridge_transfer lists exactly the mapped
\* columns, each once; the SET list of its ON CONFLICT (id) DO UPDATE clause
\* is the mapped columns without id; and when the statement's update of an
\* existing row is committed, that row holds in every mapped column other
\* than id the value of the new record, keeps its id, and keeps every column
\* that is not mapped.
C14_SetClause ==
    [][\A c \in Conns :
          (pc[c] = "ubt_commit" /\ pc'[c] = "idle")
              => LET cols == stmt[c].cols
                     w == pending[c][1]
                     others == { j \in DOMAIN cols : cols[j] # "id" }
                     mapped == MappedColumns(call[c].rec)
                 IN  /\ Range(cols) = mapped
                     /\ Len(cols) = Cardinality(mapped)
                     /\ w.kind = "update"
                            => /\ w.setcols = mapped \ {"id"}
                               /\ \A i \in w.idx :
                                      /\ bridge_transfers'[i]["id"] = bridge_transfers[i]["id"]
                                      /\ \A j \in others :
                                             LET v == PgCast(cols[j], stmt[c].vals[j])
                                             IN  IF v.t = "null"
                                                 THEN cols[j] \notin DOMAIN bridge_transfers'[i]
                                                 ELSE /\ cols[j] \in DOMAIN bridge_transfers'[i]
                                                      /\ bridge_transfers'[i][cols[j]] = v
                                      /\ \A col \in DOMAIN bridge_transfers[i] \ Range(cols) :
                                             /\ col \in DOMAIN bridge_transfers'[i]
                                             /\ bridge_transfers'[i][col] = bridge_transfers[i][col]
                                      /\ DOMAIN bridge_transfers'[i]
                                             \subseteq DOMAIN bridge_transfers[i] \cup Range(cols)]_vars

\* C14 witness: the first version of t1 was committed, then the second
\* version was upserted over it: the one row of t1 has the second version's
\* state and updated_at and the new column source_currency
C14_Witness ==
    \E c \in Conns :
        /\ pc[c] = "idle" /\ ret[c] = "True"
        /\ call[c].fn = "upsert_bridge_transfer"
        /\ Len(call[c].rec) = 5
        /\ Len(bridge_transfers) = 1
        /\ bridge_transfers[1]["id"] = Str(<<"t1">>)
        /\ bridge_transfers[1]["state"] = Str(<<"completed">>)
        /\ bridge_transfers[1]["updated_at"] = DateTime("2024-01-02", "00:00:00", "+00:00")
        /\ bridge_transfers[1]["source_currency"] = Str(<<"usd">>)
        /\ prev[c].fn = "upsert_bridge_transfer" /\ prev[c].ret = "True"
        /\ Len(prev[c].rec) = 4
        /\ RecordId(prev[c].rec) = Str(<<"t1">>)
        /\ ItemValue(prev[c].rec, <<"state">>) = Str(<<"pending">>)

\* C19: in the step in which the INSERT of insert_user or the UPDATE of
\* update_user fails (called directly or from upsert_user), the call returns
\* False, the connection's transaction is rolled back (idle, nothing
\* pending), and the users table is as it was.
C19_UsersRolledBack ==
    [][\A c \in Conns :
          (pc[c] \in {"iu_execute", "uu_execute"} /\ pc'[c] = "idle")
              => /\ ret'[c] = "False"
                 /\ tx'[c] = "idle"
                 /\ pending'[c] = <<>>
                 /\ users' = users]_vars

\* C19 witness: after a committed insert_user, insert_user with a created_at
\* that PostgreSQL cannot cast made its cursor.execute, returned False, and
\* left the connection idle and the one committed row in users
C19_Witness ==
    \E c \in Conns :
        /\ call[c].fn = "insert_user" /\ call[c].rec = UserBadStamp
        /\ pc[c] = "idle" /\ ret[c] = "False"
        /\ nexec[c] = 1
        /\ tx[c] = "idle" /\ pending[c] = <<>>
        /\ Len(users) = 1

\* C25: when the committed statement of upsert_bridge_transfer updated an
\* existing row, the table has as many rows as before, every column of the
\* updated row that is not a mapped column of the new record has the value
\* it had, and every other row is as it was.
C25_UpdateFrame ==
    [][\A c \in Conns :
          (UpsertReturns(c) /\ pending[c][1].kind = "update")
              => LET mapped == MappedColumns(call[c].rec)
                 IN  /\ Len(bridge_transfers') = Len(bridge_transfers)
                     /\ \A i \in DOMAIN bridge_transfers :
                            IF i \in pending[c][1].idx
                            THEN \A col \in DOMAIN bridge_transfers[i] \ mapped :
                                     /\ col \in DOMAIN bridge_transfers'[i]
                                     /\ bridge_transfers'[i][col] = bridge_transfers[i][col]
                            ELSE bridge_transfers'[i] = bridge_transfers[i]]_vars

\* C25 witness: t1 was stored with source_currency, then a record of t1
\* without source was upserted: the row has the later state and still has
\* source_currency; the row of t2 is there as well
C25_Witness ==
    \E c \in Conns :
        /\ pc[c] = "idle" /\ ret[c] = "True"
        /\ call[c].fn = "upsert_bridge_transfer"
        /\ Len(call[c].rec) = 4
        /\ RecordId(call[c].rec) = Str(<<"t1">>)
        /\ Len(bridge_transfers) = 2
        /\ \E i \in DOMAIN bridge_transfers :
               /\ bridge_transfers[i]["id"] = Str(<<"t1">>)
               /\ bridge_transfers[i]["state"] = Str(<<"pending">>)
               /\ "source_currency" \in DOMAIN bridge_transfers[i]
               /\ bridge_transfers[i]["source_currency"] = Str(<<"usd">>)

\* C26: whenever a call of upsert_bridge_transfer is about to execute its
\* INSERT statement, the statement's column list contains id and the value
\* bound to it is the value of the record's top-level id.
C26_IdIsMapped ==
    \A c \in Conns :
        (call[c].fn = "upsert_bridge_transfer" /\ pc[c] = "ubt_execute")
            => \E j \in DOMAIN stmt[c].cols :
                   /\ stmt[c].cols[j] = "id"
                   /\ stmt[c].vals[j] = RecordId(call[c].rec)

\* C26 witness: the record {"id": {"value": "t1"}} passed the id check and
\* its statement, which has no column at all, is about to be executed
C26_Witness ==
    \E c \in Conns :
        /\ call[c].fn = "upsert_bridge_transfer" /\ pc[c] = "ubt_execute"
        /\ RecordId(call[c].rec) = Dict(<< << <<"value">>, Str(<<"t1">>) >> >>)
        /\ stmt[c].cols = <<>>

\* C27: whenever a call of insert_user, update_user, upsert_user or
\* upsert_bridge_transfer has returned or raised, the connection has no
\* transaction open or aborted: every statement the call executed has been
\* followed by a commit or a rollback.
C27_NoTransactionLeft ==
    \A c \in Conns :
        (pc[c] = "idle" /\ call[c].fn # "none")
            => tx[c] = "idle" /\ pending[c] = <<>>

\* C27 witness: upsert_user made its SELECT, found the row, mapped no column
\* of the record in update_user and returned False with the transaction of
\* the SELECT still open
C27_Witness ==
    \E c \in Conns :
        /\ call[c].fn = "upsert_user"
        /\ pc[c] = "idle" /\ ret[c] = "False"
        /\ nexec[c] = 1
        /\ exists[c] = "row"
        /\ stmt[c].cols = <<>>
        /\ tx[c] = "intrans"

\* C29: when upsert_user calls run one after another from an empty users
\* table, no two rows have the same id, and a step that adds a row adds it
\* for an id that had no row (a call for an id already present adds none).
C29_SequentialUnique ==
    [][/\ \A i, j \in DOMAIN users' :
              users'[i]["id"] = users'[j]["id"] => i = j
       /\ Len(users') >= Len(users)
       /\ Len(users') > Len(users)
              => /\ Len(users') = Len(users) + 1
                 /\ RowsWithId(users, users'[Len(users')]["id"]) = {}]_vars

\* C29 witness: upsert_user of John, then of Jane with the same id: both
\* returned True, the second found the row, and users has one row, Jane's
C29_Witness ==
    \E c \in Conns :
        /\ call[c].fn = "upsert_user" /\ call[c].rec = UserJane
        /\ prev[c].fn = "upsert_user" /\ prev[c].rec = UserJohn /\ prev[c].ret = "True"
        /\ pc[c] = "idle" /\ ret[c] = "True"
        /\ exists[c] = "row"
        /\ Len(users) = 1
        /\ users[1]["first_name"] = Str(<<"Jane">>)

\* C2: a call of upsert_bridge_transfer or upsert_user with a record that has
\* no id field makes no cursor.execute, writes nothing, and once ended has
\* failed: upsert_bridge_transfer with a ValueError, upsert_user returning
\* False.
C2_NoIdNoSql ==
    \A c \in Conns :
        (call[c].fn \in {"upsert_bridge_transfer", "upsert_user"}
            /\ <<"id">> \notin KeysOf(call[c].rec))
            => /\ nexec[c] = 0
               /\ pending[c] = <<>>
               /\ pc[c] = "idle" =>
                      ret[c] = IF call[c].fn = "upsert_user" THEN "False" ELSE "ValueError"

\* C2 witness: upsert_user of a record without an id field (its only key is
\* the empty string, holding {"id": ..}) ran its SELECT and INSERT, returned
\* True and left a row in users
C2_Witness ==
    \E c \in Conns :
        /\ call[c].fn = "upsert_user" /\ <<"id">> \notin KeysOf(call[c].rec)
        /\ pc[c] = "idle" /\ ret[c] = "True"
        /\ nexec[c] = 2
        /\ Len(users) = 1

\* C3: when upsert_bridge_transfer ended with the error of its SQL statement,
\* the connection's transaction has been rolled back (it is idle, not failed
\* or open) and nothing of the call is committed or pending.
C3_RolledBackOnError ==
    \A c \in Conns :
        (call[c].fn = "upsert_bridge_transfer" /\ pc[c] = "idle" /\ ret[c] = "DbError")
            => tx[c] = "idle" /\ pending[c] = <<>>

\* C3 witness: upsert_bridge_transfer ended with the statement's error and
\* the connection is left in the failed transaction
C3_Witness ==
    \E c \in Conns :
        /\ call[c].fn = "upsert_bridge_transfer"
        /\ pc[c] = "idle" /\ ret[c] = "DbError"
        /\ nexec[c] = 1
        /\ tx[c] = "inerror"

\* C4: in every step, each id upserted so far has exactly one row and every
\* row belongs to such an id; no row is deleted and no row changes its id;
\* the first committed upsert of an id adds its row and a later one changes
\* only the row that has the id.
C4_OneRowPerUpsertedId ==
    [][/\ \A id \in upserted' : Cardinality(RowsWithId(bridge_transfers', id)) = 1
       /\ \A i \in DOMAIN bridge_transfers' : bridge_transfers'[i]["id"] \in upserted'
       /\ Len(bridge_transfers') >= Len(bridge_transfers)
       /\ \A i \in DOMAIN bridge_transfers :
              bridge_transfers'[i]["id"] = bridge_transfers[i]["id"]
       /\ \A c \in Conns :
              UpsertReturns(c) =>
                  LET id == pending[c][1].row["id"]
                  IN  IF id \in upserted
                      THEN /\ Len(bridge_transfers') = Len(bridge_transfers)
                           /\ \A i \in DOMAIN bridge_transfers :
                                  bridge_transfers[i]["id"] # id
                                      => bridge_transfers'[i] = bridge_transfers[i]
                      ELSE /\ Len(bridge_transfers') = Len(bridge_transfers) + 1
                           /\ bridge_transfers'[Len(bridge_transfers')]["id"] = id
                           /\ \A i \in DOMAIN bridge_transfers :
                                  bridge_transfers'[i] = bridge_transfers[i]]_vars

\* C4 witness: two ids were upserted, one of them twice with different
\* records, and the table has the two rows
C4_Witness ==
    /\ Cardinality(upserted) = 2
    /\ Len(bridge_transfers) = 2
    /\ \E c \in Conns :
           /\ call[c].fn = "upsert_bridge_transfer" /\ prev[c].fn = "upsert_bridge_transfer"
           /\ pc[c] = "idle" /\ ret[c] = "True" /\ prev[c].ret = "True"
           /\ prev[c].rec # call[c].rec
           /\ RecordId(prev[c].rec) = RecordId(call[c].rec)

\* C5: when two connections' upsert_user calls for the same id both fetched
\* no row from their SELECT and both returned True, both inserted: users has
\* at least two rows with that id.
C5_RaceInsertsTwice ==
    \A c, d \in Conns :
        (/\ c # d
         /\ call[c].fn = "upsert_user" /\ call[d].fn = "upsert_user"
         /\ pc[c] = "idle" /\ pc[d] = "idle"
         /\ ret[c] = "True" /\ ret[d] = "True"
         /\ exists[c] = "None" /\ exists[d] = "None"
         /\ stmt[c].id = stmt[d].id)
            => Cardinality(RowsWithId(users, stmt[c].id)) >= 2

\* C5 witness: the interleaving: both SELECTs saw no row before either INSERT
\* was committed, and users ends with two rows for the id
C5_Witness ==
    \E c, d \in Conns :
        /\ c # d
        /\ call[c].fn = "upsert_user" /\ call[d].fn = "upsert_user"
        /\ pc[c] = "idle" /\ pc[d] = "idle"
        /\ ret[c] = "True" /\ ret[d] = "True"
        /\ exists[c] = "None" /\ exists[d] = "None"
        /\ stmt[c].id = stmt[d].id
        /\ Len(users) = 2
        /\ Cardinality(RowsWithId(users, stmt[c].id)) = 2

C8_NoColumnsNoSql ==
    \A c \in Conns :
        (call[c].fn \in {"insert_user", "update_user", "upsert_bridge_transfer"}
            /\ stmt[c].cols = <<>>)
            => /\ nexec[c] = 0
               /\ pc[c] = "idle" => ret[c] \in {"False", "ValueError"}

\* C8 witness: upsert_bridge_transfer mapped no column, executed its
\* statement all the same and ended with the database's error
C8_Witness ==
    \E c \in Conns :
        /\ call[c].fn = "upsert_bridge_transfer" /\ stmt[c].cols = <<>>
        /\ <<"id">> \in KeysOf(call[c].rec)
        /\ pc[c] = "idle" /\ ret[c] = "DbError"
        /\ nexec[c] = 1

====
